---- MODULE Spec2Model ----
(***************************************************************************)
(* Proxy pool manager (tuwibu/goproxy): the catalog (table `proxies` and   *)
(* its in-process cache), LoadProxiesFromList / upsertProxy, SetConfig,    *)
(* GetAvailableProxy with its lock sections, ReleaseProxy and              *)
(* ClearProxyError, modelled from src/db.go (the revision that starts at   *)
(* line 335).                                                              *)
(*                                                                         *)
(* Time is counted in ticks; a second is TicksPerSec ticks, so that        *)
(* time.Time values (sub-second) and Unix seconds (truncated) differ.      *)
(***************************************************************************)
EXTENDS Integers, Sequences, FiniteSets, TLC

VARIABLES
    db,                  \* table proxies: id -> row
    proxyCache,          \* pm.proxyCache: id -> *Proxy
    maxUsed,             \* pm.maxUsed
    changeProxyWaitTime, \* pm.changeProxyWaitTime (0 = no quiet period)
    clock,               \* wall clock, in ticks
    acq,                 \* per caller: position inside GetAvailableProxy and its locals
    lastReturn,          \* history: what the most recent GetAvailableProxy call returned
    holders,             \* history: id -> callers it was handed to, no release since
    configs,             \* history: number of SetConfig / LoadProxiesFromList calls made
    loaded,              \* history: the most recent SetConfig / LoadProxiesFromList call
    quarantined,         \* history: ids whose error became non-empty, no ClearProxyError since
    lastRotation,        \* history: id -> time of the last rotation an acquire committed
    released,            \* id and result of the last ReleaseProxy call, until the next acquire
    cancelled,           \* callers whose context was cancelled during their current call
    once,                \* goproxy.go: the package's sync.Once has run its function
    instance,            \* goproxy.go: the package's singleton *ProxyManager
    giReturn,            \* what the most recent GetInstance call returned
    instances,           \* DumbProxyManager.instances: proxy id -> *DumbProxyInstance (index in made)
    made,                \* every DumbProxyInstance made so far, and whether its listener is open
    fwdReturn,           \* what the most recent StartInstance / StopInstance / StopAll call returned
    dialed,              \* the most recent dial of the AssetRoutingDialer and the dialer it used
    muLock,              \* pm.mu seen as a lock: its readers, its writer, its waiters
    call                 \* per caller: the call in progress seen as steps on pm.mu

vars == <<db, proxyCache, maxUsed, changeProxyWaitTime, clock, acq, lastReturn,
          holders, configs, loaded, quarantined, lastRotation, released,
          cancelled, once, instance, giReturn, instances, made, fwdReturn,
          dialed, muLock, call>>

\* the pool: what GetAvailableProxy, ReleaseProxy, SetConfig and their like act on
pool == <<db, proxyCache, maxUsed, changeProxyWaitTime, clock, acq, lastReturn,
          holders, configs, loaded, quarantined, lastRotation, released,
          cancelled>>

\* the singleton, the forwarders, the dialer and the lock-level view of pm.mu
side == <<once, instance, giReturn, instances, made, fwdReturn, dialed, muLock, call>>

-----------------------------------------------------------------------------
(* Bounds of the model *)

TicksPerSec == 2   \* clock resolution: ticks per second
MaxTime     == 4   \* the clock stops after this many ticks
MaxRows     == 1   \* loads that would grow the table beyond this are not made
MaxConfigs  == 2   \* sequential use: number of SetConfig / LoadProxiesFromList calls
MaxRaceConfigs == 1 \* concurrent use: number of SetConfig / LoadProxiesFromList calls
UsedLimit   == 4   \* no GetAvailableProxy call is made once a row's used has reached this

Procs == {"c1", "c2"}   \* concurrent callers of GetAvailableProxy

NoId == 0

-----------------------------------------------------------------------------
(* Strings.  A proxy string "a|b|c" is modelled after strings.Split as the *)
(* tuple <<"a","b","c">>.                                                  *)

\* strings.Contains(s, ":")
HasColon(s) == s \in {"h1:80", "h2:80", "h3:80:{random}:p", "v1:80:u:p", "v2:80:u:p"}

\* strings.Contains(s, "://")
HasScheme(s) == s \in {"http://u"}

\* strconv.Atoi: the value, 0 on error
Atoi(s) == CASE s = "0" -> 0
             [] s = "1" -> 1
             [] s = "2" -> 2
             [] OTHER   -> 0

\* fmt.Sprintf("%x", md5.Sum([]byte(s))): injective on the strings used
Md5(s) == <<"md5", s>>

\* the username field holds {random} or ${random}
HasRandomToken(s) == s \in {"h3:80:{random}:p"}

\* hex.EncodeToString
HexDigit(n) ==
    CASE n = 0 -> "0" [] n = 1 -> "1" [] n = 2 -> "2" [] n = 3 -> "3"
      [] n = 4 -> "4" [] n = 5 -> "5" [] n = 6 -> "6" [] n = 7 -> "7"
      [] n = 8 -> "8" [] n = 9 -> "9" [] n = 10 -> "a" [] n = 11 -> "b"
      [] n = 12 -> "c" [] n = 13 -> "d" [] n = 14 -> "e" [] n = 15 -> "f"

RECURSIVE Hex(_)
Hex(bytes) ==
    IF bytes = <<>> THEN ""
    ELSE HexDigit(Head(bytes) \div 16) \o HexDigit(Head(bytes) % 16) \o Hex(Tail(bytes))

\* what rand.Read may put in the buffer; the second is the decimal digits the
\* fallback encodes when rand.Read fails
RandomBytes == {<<171, 205, 18, 255>>, <<49, 55, 48, 57>>}

RandomLen == 8

\* generateRandomString(length) with the bytes drawn: length/2 bytes give
\* length hex characters, so the final [:length] cuts nothing
generateRandomString(length, bytes) ==
    IF Len(bytes) = length \div 2 THEN Hex(bytes) ELSE ""

RandomStrings == {generateRandomString(RandomLen, b) : b \in RandomBytes}

\* processStickyProxyStr with generateRandomString(8) = r
processStickyProxyStr(proxyStr, r) ==
    IF HasRandomToken(proxyStr) THEN "h3:80:" \o r \o ":p" ELSE proxyStr

Max(S) == CHOOSE x \in S : \A y \in S : y <= x

\* time.Time -> Unix seconds (truncation), Unix seconds -> time.Time
Unix(t) == t \div TicksPerSec
TimeUnix(sec) == sec * TicksPerSec
Seconds(n) == n * TicksPerSec

-----------------------------------------------------------------------------
(* Kinds *)

ProxyTypeTMProxy   == "tmproxy"
ProxyTypeKiotProxy == "kiotproxy"
ProxyTypeStatic    == "static"
ProxyTypeMobileHop == "mobilehop"
ProxyTypeSticky    == "sticky"

validateProxyType(pType) ==
    pType \in {ProxyTypeTMProxy, ProxyTypeKiotProxy, ProxyTypeStatic,
               ProxyTypeMobileHop, ProxyTypeSticky, "ipv4xoay"}

-----------------------------------------------------------------------------
(* LoadProxiesFromList: the parse of one string *)

\* unique by kind, before the sticky flag is read
DefaultUnique(pType) ==
    pType \in {ProxyTypeTMProxy, ProxyTypeMobileHop, ProxyTypeStatic, ProxyTypeKiotProxy}

\* parts[2..] of the Go code are parts[3..] here (tuples start at 1)
ParseTail(pType, parts) ==
    LET none == [minTime |-> 0, changeUrl |-> "", unique |-> DefaultUnique(pType)]
        \* the min_time / change_url pair read at positions i, i+1
        pair(i, u) ==
            IF Atoi(parts[i]) > 0
            THEN [minTime |-> Atoi(parts[i]),
                  changeUrl |-> IF Len(parts) > i THEN parts[i + 1] ELSE "",
                  unique |-> u]
            ELSE [minTime |-> IF Len(parts) > i /\ Atoi(parts[i + 1]) > 0
                              THEN Atoi(parts[i + 1]) ELSE 0,
                  changeUrl |-> parts[i],
                  unique |-> u]
    IN  IF ~(Len(parts) > 2 /\ parts[3] # "") THEN none
        ELSE IF pType = ProxyTypeMobileHop
             THEN [none EXCEPT !.changeUrl = parts[3]]
        ELSE IF pType = ProxyTypeSticky /\ parts[3] \in {"true", "false"}
             THEN IF Len(parts) > 3 /\ parts[4] # ""
                  THEN pair(4, parts[3] = "true")
                  ELSE [none EXCEPT !.unique = (parts[3] = "true")]
        ELSE pair(3, DefaultUnique(pType))

\* the fields of one string, before any vendor call
ParseProxyString(parts) ==
    LET pType == parts[1]
        tail  == ParseTail(pType, parts)
    IN  [pType     |-> pType,
         proxyStr  |-> IF HasColon(parts[2]) THEN parts[2] ELSE "",
         apiKey    |-> IF HasColon(parts[2]) THEN "" ELSE parts[2],
         minTime   |-> tail.minTime,
         changeUrl |-> tail.changeUrl,
         unique    |-> tail.unique]

\* a parse that accepts any kind
ParseOkAnyKind(parts) == Len(parts) >= 2

ParseOk(parts) == Len(parts) >= 2 /\ validateProxyType(parts[1])

\* a uniqueKey computed from the credential for every kind
UniqueKeyOfCredential(parts, f) == Md5(f.proxyStr)

\* uniqueKey of a parsed string
UniqueKeyOf(parts, f) ==
    IF f.pType \in {ProxyTypeTMProxy, ProxyTypeKiotProxy} THEN Md5(f.apiKey)
    ELSE IF f.pType = ProxyTypeSticky THEN Md5(parts[2])
    ELSE Md5(f.proxyStr)

\* KiotProxy: a region given after min_time is kept in changeUrl
KiotRegion(parts, f) ==
    IF f.pType = ProxyTypeKiotProxy /\ f.apiKey # ""
       /\ Len(parts) > 3 /\ parts[4] # "" /\ ~HasScheme(parts[4])
    THEN IF Atoi(parts[4]) = 0 THEN parts[4]
         ELSE IF Len(parts) > 4 THEN parts[5] ELSE f.changeUrl
    ELSE f.changeUrl

-----------------------------------------------------------------------------
(* Vendor answers (service.GetTMProxy / service.GetKiotProxy), chosen by   *)
(* the environment.                                                        *)

VendorCreds == {"v1:80:u:p", "v2:80:u:p"}

\* GetCurrentProxy + GetNewProxy as seen by LoadProxiesFromList:
\*   "current": a current credential that may not be rotated for r more seconds
\*   "new":     current is stale or failed, GetNewProxy succeeded
\*   "fail":    current is stale or failed, GetNewProxy failed
LoadAnswers ==
    { [kind |-> "current", r |-> 1, cred |-> "v1:80:u:p"],
      [kind |-> "new", r |-> 0, cred |-> "v2:80:u:p"],
      [kind |-> "fail", r |-> 0, cred |-> ""] }

NoAnswer == [kind |-> "none", r |-> 0, cred |-> ""]

IsVendorKeyed(f) ==
    f.pType \in {ProxyTypeTMProxy, ProxyTypeKiotProxy} /\ f.apiKey # ""

AnswersFor(parts) ==
    IF ParseOk(parts) /\ IsVendorKeyed(ParseProxyString(parts))
    THEN LoadAnswers ELSE {NoAnswer}

\* the vendor calls of the load without the back-dating of lastChanged
FetchAtLoadNow(f, a, now) ==
    IF ~IsVendorKeyed(f)
    THEN [proxyStr |-> f.proxyStr, lastChanged |-> now, proxyError |-> ""]
    ELSE CASE a.kind \in {"current", "new"} ->
                [proxyStr |-> a.cred, lastChanged |-> now, proxyError |-> ""]
           [] OTHER ->
                [proxyStr |-> f.proxyStr, lastChanged |-> now,
                 proxyError |-> "GetNewProxy failed"]

\* proxyStr, lastChanged (a time.Time) and proxyError after the vendor calls
FetchAtLoad(f, a, now) ==
    IF ~IsVendorKeyed(f)
    THEN [proxyStr |-> f.proxyStr, lastChanged |-> now, proxyError |-> ""]
    ELSE CASE a.kind = "current" ->
                LET waitSeconds == IF f.minTime - a.r < 0 THEN 0 ELSE f.minTime - a.r
                IN  [proxyStr |-> a.cred,
                     lastChanged |-> now - Seconds(waitSeconds),
                     proxyError |-> ""]
           [] a.kind = "new" ->
                [proxyStr |-> a.cred, lastChanged |-> now, proxyError |-> ""]
           [] OTHER ->
                [proxyStr |-> f.proxyStr, lastChanged |-> now,
                 proxyError |-> "GetNewProxy failed"]

-----------------------------------------------------------------------------
(* The catalog: table rows, cache entries, and the history kept beside     *)
(* them.  A store value st is [db, cache, quar, rot].                      *)

NoRotation == {}   \* no acquire has rotated the entry since it was loaded

\* SQLite rowid for INTEGER PRIMARY KEY: largest rowid + 1
NextId(d) == IF DOMAIN d = {} THEN 1 ELSE Max(DOMAIN d) + 1

IdsWithKey(d, uniqueKey) == {i \in DOMAIN d : d[i].unique_key = uniqueKey}

Extend(f, k, v) == [x \in DOMAIN f \cup {k} |-> IF x = k THEN v ELSE f[x]]

Restrict(f, S) == [x \in S |-> f[x]]

\* an upsert that replaces the colliding row by a new one
upsertProxyReplace(st, pType, proxyStr, apiKey, changeUrl, minTime, uniqueKey, unique, lastChanged, proxyError) ==
    LET hit  == IdsWithKey(st.db, uniqueKey)
        keep == DOMAIN st.db \ hit
        id   == NextId(st.db)
    IN  [db |-> Extend(Restrict(st.db, keep), id,
               [type |-> pType, proxy_str |-> proxyStr, api_key |-> apiKey,
                unique_key |-> uniqueKey, min_time |-> minTime,
                change_url |-> changeUrl, running |-> FALSE, used |-> 0,
                is_unique |-> unique, last_changed |-> Unix(lastChanged),
                error |-> proxyError]),
         cache |-> Extend(Restrict(st.cache, DOMAIN st.cache \ hit), id,
               [Type |-> pType, ProxyStr |-> proxyStr, ApiKey |-> apiKey,
                ChangeUrl |-> changeUrl, MinTime |-> minTime,
                Running |-> FALSE, Used |-> 0, Unique |-> unique,
                LastChanged |-> lastChanged, Error |-> proxyError]),
         quar |-> IF proxyError # "" THEN (st.quar \ hit) \cup {id} ELSE st.quar \ hit,
         rot |-> Extend(Restrict(st.rot, DOMAIN st.rot \ hit), id, NoRotation),
         id |-> id]

upsertProxy(st, pType, proxyStr, apiKey, changeUrl, minTime, uniqueKey, unique, lastChanged, proxyError) ==
    LET hit == IdsWithKey(st.db, uniqueKey)
        quarOf(id) == IF proxyError # "" THEN st.quar \cup {id} ELSE st.quar
    IN  IF hit = {}
        THEN \* INSERT succeeded
             LET id == NextId(st.db)
             IN  [db |-> Extend(st.db, id,
                        [type |-> pType, proxy_str |-> proxyStr, api_key |-> apiKey,
                         unique_key |-> uniqueKey, min_time |-> minTime,
                         change_url |-> changeUrl, running |-> FALSE, used |-> 0,
                         is_unique |-> unique, last_changed |-> Unix(lastChanged),
                         error |-> proxyError]),
                  cache |-> Extend(st.cache, id,
                        [Type |-> pType, ProxyStr |-> proxyStr, ApiKey |-> apiKey,
                         ChangeUrl |-> changeUrl, MinTime |-> minTime,
                         Running |-> FALSE, Used |-> 0, Unique |-> unique,
                         LastChanged |-> lastChanged, Error |-> proxyError]),
                  quar |-> quarOf(id),
                  rot |-> Extend(st.rot, id, NoRotation),
                  id |-> id]
        ELSE \* UNIQUE constraint failed: UPDATE ... WHERE unique_key=?
             LET id == CHOOSE i \in hit : TRUE
             IN  [db |-> [st.db EXCEPT ![id].proxy_str = proxyStr,
                                       ![id].min_time = minTime,
                                       ![id].change_url = changeUrl,
                                       ![id].is_unique = unique,
                                       ![id].last_changed = Unix(lastChanged),
                                       ![id].error = proxyError],
                  cache |-> IF id \in DOMAIN st.cache
                            THEN [st.cache EXCEPT ![id].ProxyStr = proxyStr,
                                                  ![id].MinTime = minTime,
                                                  ![id].ChangeUrl = changeUrl,
                                                  ![id].Unique = unique,
                                                  ![id].LastChanged = lastChanged,
                                                  ![id].Error = proxyError]
                            ELSE st.cache,
                  quar |-> quarOf(id),
                  rot |-> [st.rot EXCEPT ![id] = NoRotation],
                  id |-> id]

\* one iteration of the loop of LoadProxiesFromList (the string parses)
LoadOne(st, parts, a, now) ==
    LET f0 == ParseProxyString(parts)
        f  == [f0 EXCEPT !.changeUrl = KiotRegion(parts, f0)]
        v  == FetchAtLoad(f, a, now)
    IN  upsertProxy(st, f.pType, v.proxyStr, f.apiKey, f.changeUrl, f.minTime,
                    UniqueKeyOf(parts, f), f.unique, v.lastChanged, v.proxyError)

\* LoadProxiesFromList(proxyStrings): the store after it, the ids, and whether
\* it returned an error.  answers[i] is the vendor's answer for string i.
RECURSIVE LoadFrom(_, _, _, _, _)
LoadFrom(st, proxyStrings, answers, now, i) ==
    IF i > Len(proxyStrings) THEN [st |-> st, err |-> FALSE]
    ELSE IF ~ParseOk(proxyStrings[i]) THEN [st |-> st, err |-> TRUE]
    ELSE LoadFrom(LoadOne(st, proxyStrings[i], answers[i], now),
                  proxyStrings, answers, now, i + 1)

LoadProxiesFromList(st, proxyStrings, answers, now) ==
    LoadFrom(st, proxyStrings, answers, now, 1)

-----------------------------------------------------------------------------
(* Inputs *)

\* proxy strings given to SetConfig / LoadProxiesFromList
ProxyStringPool ==
    { <<"static", "h1:80">>,
      <<"static", "h1:80", "1">>,
      <<"tmproxy", "k1", "1">>,
      <<"kiotproxy", "k2", "1">>,
      <<"mobilehop", "h2:80", "http://u">>,
      <<"mobilehop", "h2:80">>,
      <<"sticky", "h3:80:{random}:p", "true", "1">>,
      <<"sticky", "h3:80:{random}:p">>,
      <<"sticky", "h1:80">>,
      <<"socks", "h1:80">> }

ProxyLists == {<<>>} \cup {<<s>> : s \in ProxyStringPool}

MaxUsedValues == {1, 2}

WaitTimes == {0, 1}

AnswerLists(proxyStrings) ==
    IF Len(proxyStrings) = 0 THEN {<<>>}
    ELSE IF Len(proxyStrings) = 1 THEN {<<a>> : a \in AnswersFor(proxyStrings[1])}
    ELSE AnswersFor(proxyStrings[1]) \X AnswersFor(proxyStrings[2])

-----------------------------------------------------------------------------
(* State *)

Idle == [pc |-> "idle"]

NoReturn == [caller |-> "", kind |-> "none", id |-> NoId, cred |-> ""]

NoCall == [op |-> "none", list |-> <<>>, clear |-> FALSE, again |-> FALSE, err |-> FALSE]

\* the call (op, list, clear) repeats the last configuring call, and no acquire
\* has rotated an entry since
Again(op, list, clear) ==
    /\ loaded.op = op /\ loaded.list = list /\ loaded.clear = clear
    /\ \A id \in DOMAIN lastRotation : lastRotation[id] = NoRotation

\* no ReleaseProxy call yet; err is whether the call returned a non-nil error
NoRelease == [id |-> NoId, err |-> FALSE]

Store == [db |-> db, cache |-> proxyCache, quar |-> quarantined, rot |-> lastRotation]

\* a nil pointer
Nil == "nil"

\* a nil *ProxyManager
NilManager == [nil |-> TRUE, initialized |-> FALSE]

\* no GetInstance call has returned yet
NoInstance == [called |-> FALSE, mgr |-> NilManager, err |-> FALSE]

\* no call on the DumbProxyManager has returned yet
NoForward == [op |-> "none", id |-> NoId, addr |-> 0, err |-> FALSE]

\* a context that carries no request
NoRequest == [path |-> <<>>, accept |-> <<>>, query |-> <<>>]

\* the AssetRoutingDialer has not dialed yet
NoDial == [via |-> "none", has |-> FALSE, req |-> NoRequest]

\* sync.RWMutex zero value: unlocked
Unlocked == [readers |-> {}, writer |-> Nil, pending |-> {}]

\* no call in progress
NoOp == [op |-> "none", pc |-> "idle", rev |-> "", last |-> "none"]

Init ==
    /\ once = FALSE
    /\ instance = NilManager
    /\ giReturn = NoInstance
    /\ instances = <<>>
    /\ made = <<>>
    /\ fwdReturn = NoForward
    /\ dialed = NoDial
    /\ muLock = Unlocked
    /\ call = [p \in Procs |-> NoOp]
    /\ db = <<>>
    /\ proxyCache = <<>>
    /\ maxUsed = 0
    /\ changeProxyWaitTime = 0
    /\ clock = 0
    /\ acq = [p \in Procs |-> Idle]
    /\ lastReturn = NoReturn
    /\ holders = <<>>
    /\ configs = 0
    /\ loaded = NoCall
    /\ quarantined = {}
    /\ lastRotation = <<>>
    /\ released = NoRelease
    /\ cancelled = {}

SetStore(st) ==
    /\ db' = st.db
    /\ proxyCache' = st.cache
    /\ quarantined' = st.quar
    /\ lastRotation' = st.rot

-----------------------------------------------------------------------------
(* SetConfig and LoadProxiesFromList *)

\* a reset that leaves running as it is
ResetAllCounters(st) ==
    [st EXCEPT
        !.db = [i \in DOMAIN st.db |-> [st.db[i] EXCEPT !.used = 0, !.error = ""]],
        !.cache = [i \in DOMAIN st.cache |-> [st.cache[i] EXCEPT !.Used = 0, !.Error = ""]]]

\* UPDATE proxies SET used=0, running=false, error='' and the same in the cache
ResetAll(st) ==
    [st EXCEPT
        !.db = [i \in DOMAIN st.db |->
                  [st.db[i] EXCEPT !.used = 0, !.running = FALSE, !.error = ""]],
        !.cache = [i \in DOMAIN st.cache |->
                  [st.cache[i] EXCEPT !.Used = 0, !.Running = FALSE, !.Error = ""]]]

\* DELETE FROM proxies with the cache left as it is
ClearAllRows(st) == [st EXCEPT !.db = <<>>]

\* DELETE FROM proxies and a fresh cache
ClearAll(st) == [db |-> <<>>, cache |-> <<>>, quar |-> {}, rot |-> <<>>]

\* nobody holds an entry of the table d
NoHolders(d) == [i \in DOMAIN d |-> {}]

\* the table has at most rows rows after the list is loaded into it
Fits(proxyStrings, clearAllProxy, rows) ==
    \A answers \in AnswerLists(proxyStrings) :
        LET base == IF clearAllProxy THEN ClearAll(Store) ELSE Store
            res  == LoadProxiesFromList(base, proxyStrings, answers, clock)
        IN  Cardinality(DOMAIN res.st.db) <= rows

SetConfig(proxyStrings, clearAllProxy, mu, wait) ==
    \E answers \in AnswerLists(proxyStrings) :
        LET base == IF clearAllProxy THEN ClearAll(Store) ELSE ResetAll(Store)
            res  == LoadProxiesFromList(base, proxyStrings, answers, clock)
        IN  /\ SetStore(res.st)
            /\ maxUsed' = mu
            /\ changeProxyWaitTime' = wait
            /\ holders' = NoHolders(res.st.db)
            /\ configs' = configs + 1
            /\ loaded' = [op |-> "SetConfig", list |-> proxyStrings, clear |-> clearAllProxy,
                          again |-> Again("SetConfig", proxyStrings, clearAllProxy),
                          err |-> res.err]
            /\ released' = NoRelease
            /\ UNCHANGED <<cancelled, side>>
            /\ UNCHANGED <<clock, acq, lastReturn>>

LoadList(proxyStrings) ==
    \E answers \in AnswerLists(proxyStrings) :
        LET res == LoadProxiesFromList(Store, proxyStrings, answers, clock)
        IN  /\ SetStore(res.st)
            /\ holders' = [i \in DOMAIN res.st.db |->
                              IF i \in DOMAIN holders THEN holders[i] ELSE {}]
            /\ configs' = configs + 1
            /\ loaded' = [op |-> "LoadList", list |-> proxyStrings, clear |-> FALSE,
                          again |-> Again("LoadList", proxyStrings, FALSE),
                          err |-> res.err]
            /\ UNCHANGED <<maxUsed, changeProxyWaitTime, clock, acq, lastReturn, released,
                           cancelled, side>>

-----------------------------------------------------------------------------
(* GetAvailableProxy *)

\* the candidate query with a static entry treated like the vendor kinds
EligibleStaticBypass(r, mu, nowUnix) ==
    /\ r.error = ""
    /\ \/ ~r.is_unique
       \/ r.type = ProxyTypeMobileHop /\ ~r.running
       \/ /\ r.type # ProxyTypeMobileHop
          /\ r.is_unique
          /\ ~r.running
          /\ \/ r.used < mu
             \/ r.min_time = 0
             \/ nowUnix - r.last_changed >= r.min_time

\* the candidate query with the usage cap alone, for every kind but mobilehop
EligibleCapOnly(r, mu, nowUnix) ==
    /\ r.error = ""
    /\ \/ ~r.is_unique
       \/ r.type = ProxyTypeMobileHop /\ ~r.running
       \/ /\ r.type # ProxyTypeMobileHop
          /\ r.is_unique
          /\ ~r.running
          /\ r.used < mu

\* the candidate query without its `error` condition
EligibleAnyError(r, mu, nowUnix) ==
    \/ ~r.is_unique
    \/ r.type = ProxyTypeStatic /\ ~r.running /\ r.used < mu
    \/ r.type = ProxyTypeMobileHop /\ ~r.running
    \/ /\ r.type \notin {ProxyTypeStatic, ProxyTypeMobileHop}
       /\ r.is_unique
       /\ ~r.running
       /\ \/ r.used < mu
          \/ r.min_time = 0
          \/ nowUnix - r.last_changed >= r.min_time

\* the WHERE clause of the candidate query
Eligible(r, mu, nowUnix) ==
    /\ r.error = ""
    /\ \/ ~r.is_unique
       \/ r.type = ProxyTypeStatic /\ ~r.running /\ r.used < mu
       \/ r.type = ProxyTypeMobileHop /\ ~r.running
       \/ /\ r.type \notin {ProxyTypeStatic, ProxyTypeMobileHop}
          /\ r.is_unique
          /\ ~r.running
          /\ \/ r.used < mu
             \/ r.min_time = 0
             \/ nowUnix - r.last_changed >= r.min_time

EligibleIds(d, mu, nowUnix) == {i \in DOMAIN d : Eligible(d[i], mu, nowUnix)}

\* ORDER BY id ASC
BeforeById(d, i, j) == i <= j

\* ORDER BY CASE WHEN is_unique = 0 THEN 0 ELSE 1 END, used ASC, id ASC
Before(d, i, j) ==
    LET ki == IF d[i].is_unique THEN 1 ELSE 0
        kj == IF d[j].is_unique THEN 1 ELSE 0
    IN  \/ ki < kj
        \/ ki = kj /\ d[i].used < d[j].used
        \/ ki = kj /\ d[i].used = d[j].used /\ i <= j

\* ... LIMIT 1
SelectCandidate(d, mu, nowUnix) ==
    LET E == EligibleIds(d, mu, nowUnix)
    IN  CHOOSE i \in E : \A j \in E : Before(d, i, j)

\* rows.Scan into the local Proxy p
Scan(d, id) ==
    [ID |-> id, Type |-> d[id].type, ProxyStr |-> d[id].proxy_str,
     ApiKey |-> d[id].api_key, ChangeUrl |-> d[id].change_url,
     MinTime |-> d[id].min_time, Running |-> d[id].running, Used |-> d[id].used,
     Unique |-> d[id].is_unique, LastChanged |-> TimeUnix(d[id].last_changed)]

\* canChangeIP
CanChangeIP(p, now) ==
    p.MinTime = 0 \/ now - p.LastChanged >= Seconds(p.MinTime)

\* which block of GetAvailableProxy runs after running=true has been set
Dispatch(p, now) ==
    IF p.Type = ProxyTypeSticky /\ p.Unique THEN "sticky"
    ELSE IF p.Type = ProxyTypeTMProxy /\ CanChangeIP(p, now) /\ p.ApiKey # "" THEN "vendor"
    ELSE IF p.Type = ProxyTypeMobileHop /\ p.ChangeUrl # "" THEN "changeurl"
    ELSE IF p.Type = ProxyTypeKiotProxy /\ CanChangeIP(p, now) /\ p.ApiKey # "" THEN "vendor"
    ELSE "increment"

\* UPDATE proxies SET ... WHERE id=? together with `if cached, ok := pm.proxyCache[id]`
UpdateRow(d, id, row) == IF id \in DOMAIN d THEN [d EXCEPT ![id] = row] ELSE d

\* the call of caller p returns; a unique entry handed out has one more holder
Return(p, kind, id, cred) ==
    /\ acq' = [acq EXCEPT ![p] = Idle]
    /\ lastReturn' = [caller |-> p, kind |-> kind, id |-> id, cred |-> cred]
    /\ holders' = IF kind = "ok" /\ id \in DOMAIN holders /\ acq[p].pc # "idle"
                  THEN [holders EXCEPT ![id] = @ \cup {p}]
                  ELSE holders

\* the query without the early return for entries that are not unique
SelectMarking(p) ==
    /\ acq[p].pc = "idle"
    /\ \A i \in DOMAIN db : db[i].used < UsedLimit
    /\ LET now == clock
           E   == EligibleIds(db, maxUsed, Unix(now))
       IN  IF E = {}
           THEN Return(p, "NoAvailable", NoId, "")
           ELSE LET row == Scan(db, SelectCandidate(db, maxUsed, Unix(now)))
                IN  /\ acq' = [acq EXCEPT ![p] = [pc |-> "mark", p |-> row, now |-> now]]
                    /\ UNCHANGED <<lastReturn, holders>>
    /\ UNCHANGED <<db, proxyCache, maxUsed, changeProxyWaitTime, clock, configs, loaded,
                   quarantined, lastRotation>>
    /\ released' = NoRelease
    /\ cancelled' = cancelled \ {p}
    /\ UNCHANGED side

\* read-locked section: the query, and the return paths that need no write
Select(p) ==
    /\ acq[p].pc = "idle"
    /\ \A i \in DOMAIN db : db[i].used < UsedLimit
    /\ LET now == clock
           E   == EligibleIds(db, maxUsed, Unix(now))
       IN  IF E = {}
           THEN Return(p, "NoAvailable", NoId, "")
           ELSE LET row == Scan(db, SelectCandidate(db, maxUsed, Unix(now)))
                IN  IF ~row.Unique
                    THEN IF row.Type = ProxyTypeSticky
                         THEN \E r \in RandomStrings :
                                  Return(p, "ok", row.ID, processStickyProxyStr(row.ProxyStr, r))
                         ELSE Return(p, "ok", row.ID, row.ProxyStr)
                    ELSE /\ acq' = [acq EXCEPT ![p] = [pc |-> "mark", p |-> row, now |-> now]]
                         /\ UNCHANGED <<lastReturn, holders>>
    /\ UNCHANGED <<db, proxyCache, maxUsed, changeProxyWaitTime, clock, configs, loaded,
                   quarantined, lastRotation>>
    /\ released' = NoRelease
    /\ cancelled' = cancelled \ {p}
    /\ UNCHANGED side

\* the mark-running section of a lock that is held across network I/O and the
\* quiet period of another call
MarkRunningSerialized(p) ==
    /\ acq[p].pc = "mark"
    /\ \A q \in Procs \ {p} : acq[q].pc \notin {"vendor", "changeurl", "sleep"}
    /\ LET id == acq[p].p.ID
           set(r) == [r EXCEPT !.running = TRUE]
           setc(c) == [c EXCEPT !.Running = TRUE]
       IN  /\ db' = UpdateRow(db, id, set(db[id]))
           /\ proxyCache' = UpdateRow(proxyCache, id, setc(proxyCache[id]))
    /\ acq' = [acq EXCEPT ![p].pc = Dispatch(acq[p].p, acq[p].now)]
    /\ UNCHANGED <<maxUsed, changeProxyWaitTime, clock, lastReturn, holders, configs, loaded, quarantined, lastRotation>>
    /\ UNCHANGED <<released, cancelled, side>>

\* write-locked section: running=true, then the choice of the block to run
MarkRunning(p) ==
    /\ acq[p].pc = "mark"
    /\ LET id == acq[p].p.ID
           set(r) == [r EXCEPT !.running = TRUE]
           setc(c) == [c EXCEPT !.Running = TRUE]
       IN  /\ db' = UpdateRow(db, id, set(db[id]))
           /\ proxyCache' = UpdateRow(proxyCache, id, setc(proxyCache[id]))
    /\ acq' = [acq EXCEPT ![p].pc = Dispatch(acq[p].p, acq[p].now)]
    /\ UNCHANGED <<maxUsed, changeProxyWaitTime, clock, lastReturn, holders, configs, loaded, quarantined, lastRotation>>
    /\ UNCHANGED <<released, cancelled, side>>

\* the rotation has been committed at time acq[p].now
Rotated(p) ==
    LET id == acq[p].p.ID
    IN  lastRotation' = IF id \in DOMAIN lastRotation
                        THEN [lastRotation EXCEPT ![id] = {acq[p].now}]
                        ELSE lastRotation

\* sticky with unique=true
StickyUnique(p) ==
    /\ acq[p].pc = "sticky"
    /\ LET id == acq[p].p.ID
           now == acq[p].now
           rot(r) == [r EXCEPT !.last_changed = Unix(now), !.used = 1, !.error = ""]
           rotc(c) == [c EXCEPT !.LastChanged = now, !.Used = 1, !.Error = ""]
           inc(r) == [r EXCEPT !.used = r.used + 1]
           incc(c) == [c EXCEPT !.Used = c.Used + 1]
       IN  /\ IF CanChangeIP(acq[p].p, now)
              THEN /\ db' = UpdateRow(db, id, rot(db[id]))
                   /\ proxyCache' = UpdateRow(proxyCache, id, rotc(proxyCache[id]))
                   /\ Rotated(p)
              ELSE /\ db' = UpdateRow(db, id, inc(db[id]))
                   /\ proxyCache' = UpdateRow(proxyCache, id, incc(proxyCache[id]))
                   /\ UNCHANGED lastRotation
           /\ \E r \in RandomStrings :
                  Return(p, "ok", id, processStickyProxyStr(acq[p].p.ProxyStr, r))
    /\ UNCHANGED <<maxUsed, changeProxyWaitTime, clock, configs, loaded, quarantined>>
    /\ UNCHANGED <<released, cancelled, side>>

\* service.GetTMProxy().GetNewProxy / service.GetKiotProxy().GetNewProxy, no lock held
GetNewProxy(p) ==
    /\ acq[p].pc = "vendor"
    /\ \E resp \in [ok : {TRUE}, cred : VendorCreds] \cup [ok : {FALSE}, cred : {""}] :
           acq' = [acq EXCEPT ![p] = [pc |-> "answered", p |-> acq[p].p,
                                      now |-> acq[p].now, resp |-> resp]]
    /\ UNCHANGED <<db, proxyCache, maxUsed, changeProxyWaitTime, clock, lastReturn, holders, configs, loaded, quarantined,
                   lastRotation>>
    /\ UNCHANGED <<released, cancelled, side>>

\* a vendor failure that gives the entry back instead of recording the error
VendorFailedReleases(p) ==
    /\ acq[p].pc = "answered"
    /\ ~acq[p].resp.ok
    /\ LET id == acq[p].p.ID
           set(r) == [r EXCEPT !.running = FALSE]
           setc(c) == [c EXCEPT !.Running = FALSE]
       IN  /\ db' = UpdateRow(db, id, set(db[id]))
           /\ proxyCache' = UpdateRow(proxyCache, id, setc(proxyCache[id]))
           /\ UNCHANGED quarantined
    /\ Return(p, "RotationFailed", NoId, "")
    /\ UNCHANGED <<maxUsed, changeProxyWaitTime, clock, configs, loaded, lastRotation>>
    /\ UNCHANGED <<released, cancelled, side>>

\* GetNewProxy failed or the API returned an error: error is recorded, running stays
VendorFailed(p) ==
    /\ acq[p].pc = "answered"
    /\ ~acq[p].resp.ok
    /\ LET id == acq[p].p.ID
           set(r) == [r EXCEPT !.error = "GetNewProxy failed"]
           setc(c) == [c EXCEPT !.Error = "GetNewProxy failed"]
       IN  /\ db' = UpdateRow(db, id, set(db[id]))
           /\ proxyCache' = UpdateRow(proxyCache, id, setc(proxyCache[id]))
           /\ quarantined' = IF id \in DOMAIN db THEN quarantined \cup {id} ELSE quarantined
    /\ Return(p, "RotationFailed", NoId, "")
    /\ UNCHANGED <<maxUsed, changeProxyWaitTime, clock, configs, loaded, lastRotation>>
    /\ UNCHANGED <<released, cancelled, side>>

\* after a committed rotation: time.Sleep(pm.changeProxyWaitTime), then return
AfterRotation(p, proxyStr) ==
    IF changeProxyWaitTime > 0
    THEN /\ acq' = [acq EXCEPT ![p] = [pc |-> "sleep", p |-> [acq[p].p EXCEPT !.ProxyStr = proxyStr],
                                       now |-> acq[p].now]]
         /\ UNCHANGED <<lastReturn, holders>>
    ELSE Return(p, "ok", acq[p].p.ID, proxyStr)

\* GetNewProxy succeeded: new proxy_str, used=1, last_changed, error cleared
VendorRotated(p) ==
    /\ acq[p].pc = "answered"
    /\ acq[p].resp.ok
    /\ LET id == acq[p].p.ID
           now == acq[p].now
           newProxyStr == acq[p].resp.cred
           set(r) == [r EXCEPT !.proxy_str = newProxyStr, !.last_changed = Unix(now),
                               !.used = 1, !.error = ""]
           setc(c) == [c EXCEPT !.ProxyStr = newProxyStr, !.LastChanged = now,
                                !.Used = 1, !.Error = ""]
       IN  /\ db' = UpdateRow(db, id, set(db[id]))
           /\ proxyCache' = UpdateRow(proxyCache, id, setc(proxyCache[id]))
           /\ Rotated(p)
           /\ AfterRotation(p, newProxyStr)
    /\ UNCHANGED <<maxUsed, changeProxyWaitTime, clock, configs, loaded, quarantined>>
    /\ UNCHANGED <<released, cancelled, side>>

\* pm.callChangeURL, no lock held
CallChangeURL(p) ==
    /\ acq[p].pc = "changeurl"
    /\ \E ok \in BOOLEAN :
           acq' = [acq EXCEPT ![p] = [pc |-> "reset", p |-> acq[p].p,
                                      now |-> acq[p].now, resp |-> [ok |-> ok, cred |-> ""]]]
    /\ UNCHANGED <<db, proxyCache, maxUsed, changeProxyWaitTime, clock, lastReturn, holders, configs, loaded, quarantined,
                   lastRotation>>
    /\ UNCHANGED <<released, cancelled, side>>

\* a change-URL failure handled like a vendor failure: error recorded, running kept
ChangeURLFailedQuarantines(p) ==
    /\ acq[p].pc = "reset"
    /\ ~acq[p].resp.ok
    /\ LET id == acq[p].p.ID
           set(r) == [r EXCEPT !.error = "callChangeURL failed"]
           setc(c) == [c EXCEPT !.Error = "callChangeURL failed"]
       IN  /\ db' = UpdateRow(db, id, set(db[id]))
           /\ proxyCache' = UpdateRow(proxyCache, id, setc(proxyCache[id]))
    /\ Return(p, "RotationFailed", NoId, "")
    /\ UNCHANGED <<maxUsed, changeProxyWaitTime, clock, configs, loaded, quarantined, lastRotation>>
    /\ UNCHANGED <<released, cancelled, side>>

\* callChangeURL failed: running=false
ChangeURLFailed(p) ==
    /\ acq[p].pc = "reset"
    /\ ~acq[p].resp.ok
    /\ LET id == acq[p].p.ID
           set(r) == [r EXCEPT !.running = FALSE]
           setc(c) == [c EXCEPT !.Running = FALSE]
       IN  /\ db' = UpdateRow(db, id, set(db[id]))
           /\ proxyCache' = UpdateRow(proxyCache, id, setc(proxyCache[id]))
    /\ Return(p, "RotationFailed", NoId, "")
    /\ UNCHANGED <<maxUsed, changeProxyWaitTime, clock, configs, loaded, quarantined, lastRotation>>
    /\ UNCHANGED <<released, cancelled, side>>

\* callChangeURL succeeded: used=1, last_changed, error cleared
ChangeURLRotated(p) ==
    /\ acq[p].pc = "reset"
    /\ acq[p].resp.ok
    /\ LET id == acq[p].p.ID
           now == acq[p].now
           set(r) == [r EXCEPT !.last_changed = Unix(now), !.used = 1, !.error = ""]
           setc(c) == [c EXCEPT !.LastChanged = now, !.Used = 1, !.Error = ""]
       IN  /\ db' = UpdateRow(db, id, set(db[id]))
           /\ proxyCache' = UpdateRow(proxyCache, id, setc(proxyCache[id]))
           /\ Rotated(p)
           /\ AfterRotation(p, acq[p].p.ProxyStr)
    /\ UNCHANGED <<maxUsed, changeProxyWaitTime, clock, configs, loaded, quarantined>>
    /\ UNCHANGED <<released, cancelled, side>>

\* the quiet period is over
WakeUp(p) ==
    /\ acq[p].pc = "sleep"
    /\ Return(p, "ok", acq[p].p.ID, acq[p].p.ProxyStr)
    /\ UNCHANGED <<db, proxyCache, maxUsed, changeProxyWaitTime, clock, configs, loaded,
                   quarantined, lastRotation>>
    /\ UNCHANGED <<released, cancelled, side>>

\* used++ that also stamps last_changed, as the rotation blocks do
IncrementStamped(p) ==
    /\ acq[p].pc = "increment"
    /\ LET id == acq[p].p.ID
           now == acq[p].now
           inc(r) == [r EXCEPT !.used = r.used + 1, !.last_changed = Unix(now)]
           incc(c) == [c EXCEPT !.Used = c.Used + 1, !.LastChanged = now]
       IN  /\ db' = UpdateRow(db, id, inc(db[id]))
           /\ proxyCache' = UpdateRow(proxyCache, id, incc(proxyCache[id]))
           /\ Return(p, "ok", id, acq[p].p.ProxyStr)
    /\ UNCHANGED <<maxUsed, changeProxyWaitTime, clock, configs, loaded, quarantined,
                   lastRotation>>
    /\ UNCHANGED <<released, cancelled, side>>

\* no rotation: used++ and the current proxy_str
Increment(p) ==
    /\ acq[p].pc = "increment"
    /\ LET id == acq[p].p.ID
           inc(r) == [r EXCEPT !.used = r.used + 1]
           incc(c) == [c EXCEPT !.Used = c.Used + 1]
       IN  /\ db' = UpdateRow(db, id, inc(db[id]))
           /\ proxyCache' = UpdateRow(proxyCache, id, incc(proxyCache[id]))
           /\ Return(p, "ok", id, acq[p].p.ProxyStr)
    /\ UNCHANGED <<maxUsed, changeProxyWaitTime, clock, configs, loaded, quarantined, lastRotation>>
    /\ UNCHANGED <<released, cancelled, side>>

-----------------------------------------------------------------------------
(* ReleaseProxy, ClearProxyError, the clock *)

InFlight(id) == \E p \in Procs : acq[p].pc # "idle" /\ acq[p].p.ID = id

Held(id) == id \in DOMAIN holders /\ holders[id] # {}

\* a release that writes the row and leaves the cache alone
ReleaseProxyRowOnly(id) ==
    /\ Held(id) \/ ~InFlight(id)
    /\ LET set(r) == [r EXCEPT !.running = FALSE]
       IN  db' = UpdateRow(db, id, set(db[id]))
    /\ holders' = IF id \in DOMAIN holders THEN [holders EXCEPT ![id] = {}] ELSE holders
    /\ UNCHANGED <<proxyCache, maxUsed, changeProxyWaitTime, clock, acq, lastReturn,
                   configs, loaded, quarantined, lastRotation>>
    /\ released' = [id |-> id, err |-> FALSE]
    /\ UNCHANGED <<cancelled, side>>

\* a release that also starts the use count again
ReleaseProxyReset(id) ==
    /\ Held(id) \/ ~InFlight(id)
    /\ LET set(r) == [r EXCEPT !.running = FALSE, !.used = 0]
           setc(c) == [c EXCEPT !.Running = FALSE, !.Used = 0]
       IN  /\ db' = UpdateRow(db, id, set(db[id]))
           /\ proxyCache' = UpdateRow(proxyCache, id, setc(proxyCache[id]))
    /\ holders' = IF id \in DOMAIN holders THEN [holders EXCEPT ![id] = {}] ELSE holders
    /\ UNCHANGED <<maxUsed, changeProxyWaitTime, clock, acq, lastReturn, configs, loaded,
                   quarantined, lastRotation>>
    /\ released' = [id |-> id, err |-> FALSE]
    /\ UNCHANGED <<cancelled, side>>

\* a release that fails for an id that is not in the catalog or not running
ReleaseProxyStrict(id) ==
    /\ Held(id) \/ ~InFlight(id)
    /\ LET set(r) == [r EXCEPT !.running = FALSE]
           setc(c) == [c EXCEPT !.Running = FALSE]
       IN  /\ db' = UpdateRow(db, id, set(db[id]))
           /\ proxyCache' = UpdateRow(proxyCache, id, setc(proxyCache[id]))
    /\ holders' = IF id \in DOMAIN holders THEN [holders EXCEPT ![id] = {}] ELSE holders
    /\ UNCHANGED <<maxUsed, changeProxyWaitTime, clock, acq, lastReturn, configs, loaded,
                   quarantined, lastRotation>>
    /\ released' = [id |-> id, err |-> IF id \in DOMAIN db THEN ~db[id].running ELSE TRUE]
    /\ UNCHANGED <<cancelled, side>>

\* callers release what they hold, or an entry nobody is taking
ReleaseProxy(id) ==
    /\ Held(id) \/ ~InFlight(id)
    /\ LET set(r) == [r EXCEPT !.running = FALSE]
           setc(c) == [c EXCEPT !.Running = FALSE]
       IN  /\ db' = UpdateRow(db, id, set(db[id]))
           /\ proxyCache' = UpdateRow(proxyCache, id, setc(proxyCache[id]))
    /\ holders' = IF id \in DOMAIN holders THEN [holders EXCEPT ![id] = {}] ELSE holders
    /\ UNCHANGED <<maxUsed, changeProxyWaitTime, clock, acq, lastReturn, configs, loaded,
                   quarantined, lastRotation>>
    /\ released' = [id |-> id, err |-> FALSE]
    /\ UNCHANGED <<cancelled, side>>

ClearProxyError(id) ==
    /\ LET set(r) == [r EXCEPT !.error = ""]
           setc(c) == [c EXCEPT !.Error = ""]
       IN  /\ db' = UpdateRow(db, id, set(db[id]))
           /\ proxyCache' = UpdateRow(proxyCache, id, setc(proxyCache[id]))
    /\ quarantined' = quarantined \ {id}
    /\ UNCHANGED <<maxUsed, changeProxyWaitTime, clock, acq, lastReturn, holders, configs, loaded,
                   lastRotation>>
    /\ UNCHANGED <<released, cancelled, side>>

\* caller p is between calls, waits for network I/O, or sleeps
Waiting(p) == acq[p].pc \in {"idle", "vendor", "changeurl", "sleep"}

\* Time is counted from the first configuration; lock sections take no time.
Tick ==
    /\ configs > 0
    /\ \A p \in Procs : Waiting(p)
    /\ clock < MaxTime
    /\ clock' = clock + 1
    /\ UNCHANGED <<db, proxyCache, maxUsed, changeProxyWaitTime, acq, lastReturn, holders,
                   configs, loaded, quarantined,
                   lastRotation>>
    /\ UNCHANGED <<released, cancelled, side>>

-----------------------------------------------------------------------------

Ids == 1 .. MaxRows

\* no call of GetAvailableProxy is in progress
Quiescent == \A p \in Procs : acq[p].pc = "idle"

\* the steps of a call of caller p after its query
Proceed(p) ==
    \/ MarkRunning(p)
    \/ StickyUnique(p)
    \/ GetNewProxy(p)
    \/ VendorFailed(p)
    \/ VendorRotated(p)
    \/ CallChangeURL(p)
    \/ ChangeURLFailed(p)
    \/ ChangeURLRotated(p)
    \/ WakeUp(p)
    \/ Increment(p)

\* Concurrent use: the callers' lock sections interleave with each other and
\* with ReleaseProxy and ClearProxyError; the catalog is configured between calls.
Next ==
    \/ /\ Quiescent /\ configs < MaxRaceConfigs
       /\ \E l \in ProxyLists, mu \in MaxUsedValues, w \in WaitTimes :
              Fits(l, TRUE, MaxRows) /\ SetConfig(l, TRUE, mu, w)
    \/ /\ Quiescent /\ configs < MaxRaceConfigs
       /\ \E l \in ProxyLists : Fits(l, FALSE, MaxRows) /\ LoadList(l)
    \/ \E p \in Procs : Select(p)
    \/ \E p \in Procs : Proceed(p)
    \/ \E id \in Ids : ReleaseProxy(id)
    \/ \E id \in Ids : ClearProxyError(id)
    \/ Tick

Spec == Init /\ [][Next]_vars

\* Sequential use: one goroutine calls the public operations one after the
\* other, each call returns before the next one starts; time passes freely.
SeqCaller == "c1"

NextSeq ==
    \/ /\ Quiescent /\ configs < MaxConfigs
       /\ \E l \in ProxyLists, c \in BOOLEAN, mu \in MaxUsedValues, w \in WaitTimes :
              Fits(l, c, MaxRows) /\ SetConfig(l, c, mu, w)
    \/ /\ Quiescent /\ configs < MaxConfigs
       /\ \E l \in ProxyLists : Fits(l, FALSE, MaxRows) /\ LoadList(l)
    \/ Select(SeqCaller)
    \/ Proceed(SeqCaller)
    \/ Quiescent /\ \E id \in Ids : ReleaseProxy(id)
    \/ Quiescent /\ \E id \in Ids : ClearProxyError(id)
    \/ Tick

SpecSeq == Init /\ [][NextSeq]_vars

\* Concurrent use of a vendor-keyed catalog that is configured again while
\* calls are in progress, all within one tick of the clock.
ReloadLists == { << <<"tmproxy", "k1">> >> }

NextReload ==
    \/ /\ configs < MaxConfigs
       /\ \E l \in ReloadLists, c \in BOOLEAN, mu \in MaxUsedValues :
              Fits(l, c, MaxRows) /\ SetConfig(l, c, mu, 0)
    \/ /\ configs < MaxConfigs
       /\ \E l \in ReloadLists : Fits(l, FALSE, MaxRows) /\ LoadList(l)
    \/ \E p \in Procs : Select(p)
    \/ \E p \in Procs : MarkRunning(p)
    \/ \E p \in Procs : GetNewProxy(p)
    \/ \E p \in Procs : VendorFailed(p)
    \/ \E p \in Procs : VendorRotated(p)
    \/ \E id \in Ids : ReleaseProxy(id)
    \/ \E id \in Ids : ClearProxyError(id)

SpecReload == Init /\ [][NextReload]_vars

\* Sequential use of a catalog of several entries that is configured again
\* and again, at one instant of the clock: lists of two strings, strings that
\* do not parse, strings that share a fingerprint.
MaxLoadRows == 2   \* loads that would grow the table beyond this are not made
MaxLoads    == 2   \* number of SetConfig / LoadProxiesFromList calls

LoadLists ==
    { << <<"tmproxy", "k1">> >>,
      << <<"tmproxy", "k1", "1">> >>,
      << <<"kiotproxy", "k1">> >>,
      << <<"kiotproxy", "k1", "2">> >>,
      << <<"static", "h1:80">> >>,
      << <<"tmproxy", "k1">>, <<"static", "h1:80">> >>,
      << <<"static", "h1:80">>, <<"sticky", "h1:80">> >>,
      << <<"static", "h2:80">>, <<"socks", "h1:80">> >>,
      << <<"static">>, <<"static", "h1:80">> >> }

NextLoad ==
    \/ /\ Quiescent /\ configs < MaxLoads
       /\ \E l \in LoadLists, c \in BOOLEAN, mu \in MaxUsedValues :
              Fits(l, c, MaxLoadRows) /\ SetConfig(l, c, mu, 0)
    \/ /\ Quiescent /\ configs < MaxLoads
       /\ \E l \in LoadLists : Fits(l, FALSE, MaxLoadRows) /\ LoadList(l)
    \/ Select(SeqCaller)
    \/ MarkRunning(SeqCaller)
    \/ GetNewProxy(SeqCaller)
    \/ VendorFailed(SeqCaller)
    \/ VendorRotated(SeqCaller)
    \/ Increment(SeqCaller)
    \/ Quiescent /\ \E id \in 1 .. MaxLoadRows : ReleaseProxy(id)

SpecLoad == Init /\ [][NextLoad]_vars

\* Concurrent use of a catalog of two entries, configured once with a quiet
\* period, at one instant of the clock: while one caller waits for the
\* network or sleeps, the other caller and the holders of entries go on.
MaxPairRows == 2   \* loads that would grow the table beyond this are not made

PairLists ==
    { << <<"tmproxy", "k1">>, <<"mobilehop", "h2:80", "http://u">> >>,
      << <<"mobilehop", "h2:80", "http://u">>, <<"static", "h1:80">> >> }

NextPair ==
    \/ /\ Quiescent /\ configs < MaxRaceConfigs
       /\ \E l \in PairLists, mu \in MaxUsedValues :
              Fits(l, TRUE, MaxPairRows) /\ SetConfig(l, TRUE, mu, 1)
    \/ \E p \in Procs : Select(p)
    \/ \E p \in Procs : MarkRunning(p)
    \/ \E p \in Procs : GetNewProxy(p)
    \/ \E p \in Procs : VendorFailed(p)
    \/ \E p \in Procs : VendorRotated(p)
    \/ \E p \in Procs : CallChangeURL(p)
    \/ \E p \in Procs : ChangeURLFailed(p)
    \/ \E p \in Procs : ChangeURLRotated(p)
    \/ \E p \in Procs : WakeUp(p)
    \/ \E p \in Procs : Increment(p)
    \/ \E id \in 1 .. MaxPairRows : ReleaseProxy(id)
    \/ \E id \in 1 .. MaxPairRows : ClearProxyError(id)

SpecPair == Init /\ [][NextPair]_vars

\* Sequential use by a caller that may give up: the caller wants to cancel
\* while its call waits for the vendor, for the change URL, or sleeps the
\* quiet period.  GetAvailableProxy() takes no context, callChangeURL is
\* called with context.Background() and the quiet period is a time.Sleep, so
\* the cancellation changes nothing but the history of the caller.
Cancel(p) ==
    /\ acq[p].pc \in {"vendor", "changeurl", "sleep"}
    /\ p \notin cancelled
    /\ cancelled' = cancelled \cup {p}
    /\ UNCHANGED side
    /\ UNCHANGED <<db, proxyCache, maxUsed, changeProxyWaitTime, clock, acq, lastReturn,
                   holders, configs, loaded, quarantined, lastRotation, released>>

CancelLists ==
    { << <<"tmproxy", "k1">> >>,
      << <<"kiotproxy", "k2">> >>,
      << <<"mobilehop", "h2:80", "http://u">> >> }

NextCancel ==
    \/ /\ Quiescent /\ configs < MaxConfigs
       /\ \E l \in CancelLists, c \in BOOLEAN, mu \in MaxUsedValues, w \in WaitTimes :
              Fits(l, c, MaxRows) /\ SetConfig(l, c, mu, w)
    \/ Select(SeqCaller)
    \/ MarkRunning(SeqCaller)
    \/ GetNewProxy(SeqCaller)
    \/ VendorFailed(SeqCaller)
    \/ VendorRotated(SeqCaller)
    \/ CallChangeURL(SeqCaller)
    \/ ChangeURLFailed(SeqCaller)
    \/ ChangeURLRotated(SeqCaller)
    \/ WakeUp(SeqCaller)
    \/ Cancel(SeqCaller)
    \/ Quiescent /\ \E id \in Ids : ReleaseProxy(id)
    \/ Quiescent /\ \E id \in Ids : ClearProxyError(id)

SpecCancel == Init /\ [][NextCancel]_vars

\* Sequential use that goes on for ever: whenever the caller can start a call
\* it does, and every call it starts runs to its return.  Catalogs of shared
\* (not unique) and unique entries without rotation.
FairLists ==
    { << <<"sticky", "h3:80:{random}:p">>, <<"static", "h1:80">> >>,
      << <<"static", "h2:80">>, <<"static", "h1:80">> >>,
      << <<"static", "h1:80">> >> }

NextFair ==
    \/ /\ Quiescent /\ configs < MaxLoads
       /\ \E l \in FairLists, c \in BOOLEAN, mu \in MaxUsedValues :
              Fits(l, c, MaxLoadRows) /\ SetConfig(l, c, mu, 0)
    \/ Select(SeqCaller)
    \/ MarkRunning(SeqCaller)
    \/ Increment(SeqCaller)
    \/ Quiescent /\ \E id \in 1 .. MaxLoadRows : ReleaseProxy(id)

SpecFair ==
    /\ Init /\ [][NextFair]_vars
    /\ WF_vars(Select(SeqCaller))
    /\ WF_vars(MarkRunning(SeqCaller))
    /\ WF_vars(Increment(SeqCaller))

\* A caller whose call is overtaken: SetConfig runs while a call of
\* GetAvailableProxy is between its query and its later sections, all at one
\* instant of the clock, so that the entry is not rotated.
StaleLists == { <<>>, << <<"tmproxy", "k1", "1">> >> }

NextStale ==
    \/ /\ configs < MaxConfigs
       /\ \E l \in StaleLists, c \in BOOLEAN, mu \in MaxUsedValues :
              Fits(l, c, MaxRows) /\ SetConfig(l, c, mu, 0)
    \/ Select(SeqCaller)
    \/ MarkRunning(SeqCaller)
    \/ Increment(SeqCaller)

SpecStale == Init /\ [][NextStale]_vars

-----------------------------------------------------------------------------
(* Steps, as seen in a pair of states *)

\* the call of caller p returns in this step and hands the entry id out
HandsOut(p, id) ==
    /\ acq[p].pc # "idle"
    /\ acq'[p].pc = "idle"
    /\ acq[p].p.ID = id
    /\ lastReturn'.kind = "ok"
    /\ lastReturn'.caller = p

\* caller p commits a rotation of the entry id in this step
Rotates(p, id) ==
    /\ acq[p].pc \in {"answered", "reset", "sticky"}
    /\ acq[p].p.ID = id
    /\ acq'[p].pc \in {"idle", "sleep"}
    /\ IF acq[p].pc = "sticky" THEN CanChangeIP(acq[p].p, acq[p].now) ELSE acq[p].resp.ok

\* the query of caller p picks the entry id in this step
Picks(p, id) ==
    /\ acq[p].pc = "idle"
    /\ \/ acq'[p].pc = "mark" /\ acq'[p].p.ID = id
       \/ /\ acq'[p].pc = "idle"
          /\ lastReturn' # lastReturn
          /\ lastReturn'.kind = "ok" /\ lastReturn'.caller = p /\ lastReturn'.id = id

\* the step is a SetConfig or LoadProxiesFromList call
Configures == configs' # configs

-----------------------------------------------------------------------------
(* C1 *)

\* C1: while a unique entry is running, at most one caller has been handed it
\* with no release in between, however the callers' queries and mark-running
\* sections interleave.
C1_OneWinner ==
    \A id \in DOMAIN holders :
        id \in DOMAIN db /\ db[id].is_unique /\ db[id].running
            => Cardinality(holders[id]) <= 1

-----------------------------------------------------------------------------
(* C2 *)

\* the step is ClearProxyError(id)
Clears(id) == id \in quarantined /\ id \notin quarantined' /\ ~Configures

-----------------------------------------------------------------------------
(* C3, C4 *)

IsStatic(r) == r.type = ProxyTypeStatic /\ r.is_unique

\* the call of caller p returns in this step without having picked an entry
FindsNothing(p) ==
    /\ acq[p].pc = "idle" /\ acq'[p].pc = "idle"
    /\ lastReturn' # lastReturn
    /\ lastReturn'.caller = p
    /\ lastReturn'.kind # "ok"

AtCap(r) == r.is_unique /\ ~r.running /\ r.error = "" /\ r.used >= maxUsed

\* min_time is 0 or has elapsed since last_changed
Elapsed(r) == r.min_time = 0 \/ Unix(clock) - r.last_changed >= r.min_time

-----------------------------------------------------------------------------
(* C5 *)

\* the call of caller p, which has rotated the entry id, returns in this step
EndsRotation(p, id) ==
    /\ acq[p].pc \in {"answered", "reset", "sticky", "sleep"}
    /\ acq[p].p.ID = id
    /\ acq'[p].pc = "idle"
    /\ acq[p].pc = "sleep" \/ Rotates(p, id)

\* C5: when an acquire that has rotated an entry returns, the entry has
\* used = 1, an empty error, last_changed equal to the acquire's timestamp (in
\* the row's unit, whole seconds) and running = true.
C5_RotationResets ==
    [][\A p \in Procs, id \in DOMAIN db :
          EndsRotation(p, id) =>
              /\ id \in DOMAIN db'
              /\ db'[id].used = 1
              /\ db'[id].error = ""
              /\ db'[id].last_changed = Unix(acq[p].now)
              /\ db'[id].running]_vars

-----------------------------------------------------------------------------
(* C6 *)

\* caller p calls the vendor's GetNewProxy for the entry id in this step
CallsVendor(p, id) ==
    /\ acq[p].pc = "vendor"
    /\ acq[p].p.ID = id
    /\ acq'[p].pc = "answered"

\* C6: two rotations of an entry with min_time > 0 that acquires commit are at
\* least min_time seconds apart, and an acquire calls GetNewProxy only when
\* min_time = 0 or min_time has elapsed since the stored last_changed.
C6_MinTimeHonored ==
    [][\A p \in Procs, id \in DOMAIN db :
          /\ Rotates(p, id) /\ db[id].min_time > 0 /\ id \in DOMAIN lastRotation
                => \A t \in lastRotation[id] :
                       acq[p].now - t >= Seconds(db[id].min_time)
          /\ CallsVendor(p, id)
                => \/ db[id].min_time = 0
                   \/ acq[p].now - TimeUnix(db[id].last_changed)
                          >= Seconds(db[id].min_time)]_vars

-----------------------------------------------------------------------------
(* C7 *)

\* caller p calls the change URL of the entry id in this step
CallsChangeURL(p, id) ==
    /\ acq[p].pc = "changeurl"
    /\ acq[p].p.ID = id
    /\ acq'[p].pc = "reset"

\* C7: no acquire and no release changes the credential or last_changed of a
\* static entry, in the row or in the cache; every acquire of it returns the
\* stored credential; and no acquire calls the vendor or a change URL for it
\* or commits a rotation of it.
C7_StaticStable ==
    [][\A i \in DOMAIN db :
          db[i].type = ProxyTypeStatic /\ ~Configures =>
              /\ i \in DOMAIN db' /\ i \in DOMAIN proxyCache'
              /\ db'[i].proxy_str = db[i].proxy_str
              /\ db'[i].last_changed = db[i].last_changed
              /\ proxyCache'[i].ProxyStr = proxyCache[i].ProxyStr
              /\ proxyCache'[i].LastChanged = proxyCache[i].LastChanged
              /\ \A p \in Procs :
                     /\ ~Rotates(p, i) /\ ~CallsVendor(p, i) /\ ~CallsChangeURL(p, i)
                     /\ HandsOut(p, i) => lastReturn'.cred = db[i].proxy_str]_vars

\* a static entry has been handed out twice and released, and time has passed
\* since it was loaded
C7_Reused ==
    /\ Quiescent
    /\ lastReturn.kind = "ok"
    /\ \E i \in DOMAIN db :
           /\ db[i].type = ProxyTypeStatic
           /\ lastReturn.id = i /\ lastReturn.cred = db[i].proxy_str
           /\ db[i].used >= 2 /\ ~db[i].running
           /\ Unix(clock) > db[i].last_changed

-----------------------------------------------------------------------------
(* C8 *)

\* cache entry c and row r carry the same running, used, credential, last_error
SameFlags(c, r) ==
    /\ c.Running = r.running
    /\ c.Used = r.used
    /\ c.ProxyStr = r.proxy_str
    /\ c.Error = r.error

-----------------------------------------------------------------------------
(* C9 *)

\* the step repeats the configuring call before it
Repeats == Configures /\ loaded'.again

KeyOf(parts) == UniqueKeyOf(parts, ParseProxyString(parts))

\* the strings of the call of this step whose fingerprint is in the catalog
\* it loads into
Known(list) ==
    {i \in 1 .. Len(list) : ParseOk(list[i]) /\ IdsWithKey(db, KeyOf(list[i])) # {}}

\* a string whose fingerprint exists keeps the existing id, and a call whose
\* strings are all known inserts no row
ExistingKept ==
    Configures /\ ~loaded'.clear =>
        LET list == loaded'.list
        IN  /\ \A i \in Known(list) :
                   IdsWithKey(db', KeyOf(list[i])) = IdsWithKey(db, KeyOf(list[i]))
            /\ Known(list) = 1 .. Len(list) => DOMAIN db' = DOMAIN db

VendorRow(r) == r.type \in {ProxyTypeTMProxy, ProxyTypeKiotProxy} /\ r.api_key # ""

\* the entry id is one that the call of this step loads again
Reloaded(id) ==
    \E i \in Known(loaded'.list) : id \in IdsWithKey(db, KeyOf(loaded'.list[i]))

\* C9 as stated: configuring with the same list a second time leaves the
\* number of rows and each entry's id, credential, min_time and change_url as
\* the first time left them; a string whose fingerprint exists gets the
\* existing id and no new row.
C9_Idempotent ==
    [][/\ Repeats =>
           /\ DOMAIN db' = DOMAIN db
           /\ \A id \in DOMAIN db :
                  /\ db'[id].proxy_str = db[id].proxy_str
                  /\ db'[id].min_time = db[id].min_time
                  /\ db'[id].change_url = db[id].change_url
       /\ ExistingKept]_vars

\* C9: configuring with the same list a second time leaves the number of rows
\* and each entry's id, min_time and change_url as the first time left them,
\* and the credential too unless the entry is a tmproxy or kiotproxy key of
\* the list, whose credential and last_error are what the vendor answers to
\* the second load; a string whose fingerprint exists gets the existing id and no new
\* row.
C9_IdempotentLoad ==
    [][/\ Repeats =>
           /\ DOMAIN db' = DOMAIN db
           /\ \A id \in DOMAIN db :
                  /\ db'[id].min_time = db[id].min_time
                  /\ db'[id].change_url = db[id].change_url
                  /\ db'[id].unique_key = db[id].unique_key
                  /\ IF VendorRow(db[id]) /\ Reloaded(id)
                     THEN IF db'[id].error = ""
                          THEN db'[id].proxy_str \in VendorCreds
                          ELSE db'[id].proxy_str = ""
                     ELSE db'[id].proxy_str = db[id].proxy_str
       /\ ExistingKept]_vars

\* the same non-empty list has been loaded twice in a row without clear-all
C9_LoadedTwice ==
    /\ loaded.again /\ ~loaded.clear
    /\ Len(loaded.list) > 0
    /\ Cardinality(DOMAIN db) = Len(loaded.list)

-----------------------------------------------------------------------------
(* C10 *)

\* the entry id is in the catalog before and after the step, which is not a
\* clear-all (that deletes the entry)
Survives(id) ==
    /\ id \in DOMAIN db /\ id \in DOMAIN db'
    /\ ~(Configures /\ loaded'.clear)

RotatedBy(id) == \E p \in Procs : Rotates(p, id)

-----------------------------------------------------------------------------
(* C11 *)

\* a ReleaseProxy(id) call is made in this step
Releases(id) == released' # released /\ released'.id = id

\* C11: ReleaseProxy(id) returns nil whether or not id is in the catalog or
\* running; it leaves running=false in row and cache and changes nothing else:
\* used, credential, last_changed, last_error and every other entry stay.
C11_Release ==
    [][\A id \in Ids :
          Releases(id) =>
              /\ ~released'.err
              /\ DOMAIN db' = DOMAIN db /\ DOMAIN proxyCache' = DOMAIN proxyCache
              /\ \A j \in DOMAIN db : j # id => db'[j] = db[j]
              /\ \A j \in DOMAIN proxyCache : j # id => proxyCache'[j] = proxyCache[j]
              /\ id \in DOMAIN db => db'[id] = [db[id] EXCEPT !.running = FALSE]
              /\ id \in DOMAIN proxyCache =>
                     proxyCache'[id] = [proxyCache[id] EXCEPT !.Running = FALSE]]_vars

\* an entry that was handed out and used has been released and is free
C11_Released ==
    /\ released.id \in DOMAIN db
    /\ ~released.err
    /\ ~db[released.id].running /\ ~proxyCache[released.id].Running
    /\ db[released.id].used >= 1
    /\ lastReturn.kind = "ok" /\ lastReturn.id = released.id

-----------------------------------------------------------------------------
(* C12 *)

\* the GetNewProxy call of caller p for the entry id has failed, and p's
\* acquire returns in this step
FailsVendor(p, id) ==
    /\ acq[p].pc = "answered"
    /\ ~acq[p].resp.ok
    /\ acq[p].p.ID = id
    /\ acq'[p].pc = "idle"

\* the row r and the cache entry c are as the acquire found them (snapshot q),
\* but running and with an error recorded
QuarantinedAsFound(r, c, q) ==
    /\ r.error # "" /\ c.Error # ""
    /\ r.running /\ c.Running
    /\ r.used = q.Used /\ c.Used = q.Used
    /\ r.proxy_str = q.ProxyStr /\ c.ProxyStr = q.ProxyStr
    /\ r.last_changed = Unix(q.LastChanged) /\ Unix(c.LastChanged) = Unix(q.LastChanged)

\* C12: when GetNewProxy fails during the acquire of a tmproxy or kiotproxy
\* entry, the acquire returns an error, the entry is left with last_error set
\* and running=true, with used, credential and last_changed as before the
\* acquire; and no query picks an entry whose last_error is set.
C12_VendorFailure ==
    [][\A p \in Procs, id \in Ids :
          /\ FailsVendor(p, id) =>
                 /\ lastReturn' = [caller |-> p, kind |-> "RotationFailed",
                                    id |-> NoId, cred |-> ""]
                 /\ id \in DOMAIN db' /\ id \in DOMAIN proxyCache'
                 /\ db'[id].type \in {ProxyTypeTMProxy, ProxyTypeKiotProxy}
                 /\ QuarantinedAsFound(db'[id], proxyCache'[id], acq[p].p)
          /\ Picks(p, id) => db[id].error = ""]_vars

\* a vendor entry is quarantined and still running, and the acquire after the
\* failed one has found nothing
C12_Quarantined ==
    /\ Quiescent
    /\ lastReturn.kind = "NoAvailable"
    /\ \E id \in DOMAIN db :
           /\ db[id].type \in {ProxyTypeTMProxy, ProxyTypeKiotProxy}
           /\ db[id].error = "GetNewProxy failed"
           /\ db[id].running
           /\ db[id].proxy_str \in VendorCreds

-----------------------------------------------------------------------------
(* C13 *)

\* the entry id is in quarantine because GetNewProxy failed during an acquire:
\* that call left it running and handed it to nobody
FailedAtAcquire(id) ==
    /\ db[id].type \in {ProxyTypeTMProxy, ProxyTypeKiotProxy}
    /\ db[id].error # ""
    /\ db[id].running
    /\ holders[id] = {}

\* C13: ClearProxyError(id) alone, with no release and no configure, makes an
\* entry that an acquire's vendor failure put in quarantine selectable by the
\* next acquire.
C13_ClearRestores ==
    [][\A id \in DOMAIN db :
          Clears(id) /\ FailedAtAcquire(id) =>
              id \in EligibleIds(db', maxUsed, Unix(clock))]_vars

-----------------------------------------------------------------------------
(* C14 *)

\* the change-URL call of caller p for the entry id has failed, and p's
\* acquire returns in this step
FailsChangeURL(p, id) ==
    /\ acq[p].pc = "reset"
    /\ ~acq[p].resp.ok
    /\ acq[p].p.ID = id
    /\ acq'[p].pc = "idle"

\* the row r and the cache entry c are as the acquire found them (snapshot q),
\* free and without error
ReleasedAsFound(r, c, q) ==
    /\ r.error = "" /\ c.Error = ""
    /\ ~r.running /\ ~c.Running
    /\ r.used = q.Used /\ c.Used = q.Used
    /\ r.proxy_str = q.ProxyStr /\ c.ProxyStr = q.ProxyStr
    /\ r.last_changed = Unix(q.LastChanged) /\ Unix(c.LastChanged) = Unix(q.LastChanged)

-----------------------------------------------------------------------------
(* C15 *)

\* caller p runs its query in this step
Queries(p) ==
    /\ acq[p].pc = "idle"
    /\ \/ acq'[p].pc = "mark"
       \/ lastReturn' # lastReturn /\ lastReturn'.caller = p

\* the entries that are not unique and carry no error
Shared == {i \in DOMAIN db : ~db[i].is_unique /\ db[i].error = ""}

\* the credential template t with its random token replaced by 8 hex characters
Filled(t) ==
    {processStickyProxyStr(t, r) : r \in {x \in RandomStrings : Len(x) = RandomLen}}

\* C15: an acquire that picks an entry with unique=false returns at once and
\* changes nothing in the catalog (row and cache: running, used, last_changed,
\* credential template); such an entry is picked whatever its used, running
\* and maxUsed are, as long as it carries no error; for a sticky entry the
\* credential returned is the template with the random token replaced by 8
\* lowercase hex characters, for any other kind the stored credential.
C15_NonUnique ==
    [][\A p \in Procs :
          Queries(p) /\ Shared # {} =>
              /\ acq'[p].pc = "idle"
              /\ lastReturn'.kind = "ok" /\ lastReturn'.id \in Shared
              /\ db' = db /\ proxyCache' = proxyCache /\ holders' = holders
              /\ LET r == db[lastReturn'.id]
                 IN  IF r.type = ProxyTypeSticky
                     THEN /\ lastReturn'.cred \in Filled(r.proxy_str)
                          /\ HasRandomToken(r.proxy_str) => lastReturn'.cred # r.proxy_str
                     ELSE lastReturn'.cred = r.proxy_str]_vars

\* a sticky entry that is not unique has been handed out with maxUsed 1, its
\* token replaced, and the entry is untouched
C15_Handed ==
    /\ maxUsed = 1
    /\ Quiescent
    /\ lastReturn.kind = "ok"
    /\ lastReturn.id \in Shared
    /\ db[lastReturn.id].type = ProxyTypeSticky
    /\ db[lastReturn.id].used = 0 /\ ~db[lastReturn.id].running
    /\ lastReturn.cred = "h3:80:31373039:p"

-----------------------------------------------------------------------------
(* C16 *)

\* a sticky entry with unique=true and a min_time, not in quarantine
StickyLease(r) ==
    r.type = ProxyTypeSticky /\ r.is_unique /\ r.min_time > 0 /\ r.error = ""

\* at time now, min_time seconds have passed since the instant the entry id
\* was last changed (the cache keeps the instant)
SinceChanged(id, now) == now - proxyCache[id].LastChanged >= Seconds(db[id].min_time)

\* C16: a unique sticky entry with min_time m > 0 is not picked while it is
\* running, nor at used >= maxUsed before m seconds have passed since its last
\* change, and is picked otherwise; an acquire of it made before m seconds
\* have passed adds 1 to used, which stays within maxUsed, and an acquire made
\* after that leaves used = 1 and last_changed = now.
C16_LeaseCycle ==
    [][\A p \in Procs, id \in DOMAIN db :
          StickyLease(db[id]) /\ maxUsed > 0 =>
              /\ Queries(p) =>
                     Picks(p, id) <=>
                         /\ ~db[id].running
                         /\ db[id].used < maxUsed \/ SinceChanged(id, clock)
              /\ HandsOut(p, id) =>
                     IF SinceChanged(id, acq[p].now)
                     THEN /\ db'[id].used = 1
                          /\ db'[id].last_changed = Unix(acq[p].now)
                          /\ proxyCache'[id].LastChanged = acq[p].now
                     ELSE /\ db'[id].used = db[id].used + 1
                          /\ db'[id].used <= maxUsed
                          /\ db'[id].last_changed = db[id].last_changed]_vars

-----------------------------------------------------------------------------
(* C17 *)

\* this step is a SetConfig call without ClearAllProxy
Resets == Configures /\ loaded'.op = "SetConfig" /\ ~loaded'.clear

\* the cache entry c shows used, running and error of the row r
SameCounters(c, r) == c.Used = r.used /\ c.Running = r.running /\ c.Error = r.error

-----------------------------------------------------------------------------
(* C18 *)

\* this step is a SetConfig call with ClearAllProxy
ClearsAll == Configures /\ loaded'.op = "SetConfig" /\ loaded'.clear

\* the strings of list that LoadProxiesFromList reaches and parses
Applied(list) == {i \in 1 .. Len(list) : \A j \in 1 .. i : ParseOk(list[j])}

\* their fingerprints
Keys(list) == {KeyOf(list[i]) : i \in Applied(list)}

\* the cache entry c is the row r
Mirrors(c, r) ==
    /\ c.Type = r.type /\ c.ProxyStr = r.proxy_str /\ c.ApiKey = r.api_key
    /\ c.MinTime = r.min_time /\ c.ChangeUrl = r.change_url /\ c.Unique = r.is_unique
    /\ SameCounters(c, r)

\* C18: after SetConfig with ClearAllProxy the table holds one row per
\* distinct fingerprint among the strings of proxyStrings that were loaded
\* (all of them when the call returns no error) and nothing else, each row as
\* a first insert leaves it (used = 0, running = false), and the cache holds
\* exactly these rows.
C18_ClearAll ==
    [][ClearsAll =>
          LET K == Keys(loaded'.list)
          IN  /\ {db'[i].unique_key : i \in DOMAIN db'} = K
              /\ Cardinality(DOMAIN db') = Cardinality(K)
              /\ DOMAIN db' = 1 .. Cardinality(K)
              /\ DOMAIN proxyCache' = DOMAIN db'
              /\ \A i \in DOMAIN db' :
                     /\ db'[i].used = 0 /\ ~db'[i].running
                     /\ Mirrors(proxyCache'[i], db'[i])]_vars

\* a table of two rows, the second of which had been handed out, holds after
\* a SetConfig with ClearAllProxy the one row of a list of two strings that
\* share a fingerprint
C18_Replaced ==
    /\ Quiescent
    /\ configs = 2
    /\ loaded.op = "SetConfig" /\ loaded.clear
    /\ Len(loaded.list) = 2 /\ Applied(loaded.list) = {1, 2}
    /\ lastReturn.kind = "ok" /\ lastReturn.id = 2
    /\ DOMAIN db = {1} /\ DOMAIN proxyCache = {1}
    /\ db[1].used = 0

-----------------------------------------------------------------------------
(* C19 *)

\* a string with fewer than two fields or with an unknown kind
Malformed(parts) == Len(parts) < 2 \/ ~validateProxyType(parts[1])

\* the strings of list before its first malformed one
Prefix(list) ==
    LET bad == {i \in 1 .. Len(list) : Malformed(list[i])}
    IN  IF bad = {} THEN list
        ELSE SubSeq(list, 1, (CHOOSE i \in bad : \A j \in bad : i <= j) - 1)

\* the table and the cache are what the call of this step leaves when it is
\* given list
LoadedAs(list) ==
    \E answers \in AnswerLists(list) :
        LET base == IF loaded'.op = "LoadList" THEN Store
                    ELSE IF loaded'.clear THEN ClearAll(Store) ELSE ResetAll(Store)
            res  == LoadProxiesFromList(base, list, answers, clock)
        IN  db' = res.st.db /\ proxyCache' = res.st.cache

-----------------------------------------------------------------------------
(* C20 *)

\* MD5 of api_key for the vendor-keyed kinds, of the credential otherwise
expectedUniqueKey(r) ==
    IF r.type \in {ProxyTypeTMProxy, ProxyTypeKiotProxy}
    THEN Md5(r.api_key) ELSE Md5(r.proxy_str)

-----------------------------------------------------------------------------
(* C21 *)

\* cred is the credential of the row r as GetAvailableProxy returns it
Materializes(cred, r) ==
    IF r.type = ProxyTypeSticky
    THEN \E x \in RandomStrings : cred = processStickyProxyStr(r.proxy_str, x)
    ELSE cred = r.proxy_str

\* C21: when GetAvailableProxy returns the id and credential of a unique
\* entry, the entry has running = true and used >= 1 in the table and in the
\* cache, used = 1 if it had never been used, and the returned credential is
\* the stored one (for sticky, the stored template with its random token
\* filled in).
C21_PostAcquire ==
    [][\A p \in Procs, id \in DOMAIN db :
          HandsOut(p, id) /\ acq[p].p.Unique =>
              /\ id \in DOMAIN db' /\ id \in DOMAIN proxyCache'
              /\ db'[id].running /\ proxyCache'[id].Running
              /\ db'[id].used >= 1 /\ proxyCache'[id].Used = db'[id].used
              /\ acq[p].p.Used = 0 => db'[id].used = 1
              /\ Materializes(lastReturn'.cred, db'[id])]_vars

-----------------------------------------------------------------------------
(* C23 *)

\* id is first among the eligible entries E: a non-unique one if E has any,
\* then the smallest used, then the smallest id
First(d, E, id) ==
    /\ id \in E
    /\ (\E j \in E : ~d[j].is_unique) => ~d[id].is_unique
    /\ \A j \in E :
           d[j].is_unique = d[id].is_unique =>
               \/ d[id].used < d[j].used
               \/ d[id].used = d[j].used /\ id <= j

-----------------------------------------------------------------------------
(* C24 *)

\* the call of caller p is on a mobilehop entry
OnMobileHop(p) == acq[p].pc # "idle" /\ acq[p].p.Type = ProxyTypeMobileHop

\* C24 as stated: a mobilehop entry is eligible exactly when running = false
\* and error = '', whatever used, maxUsed, min_time and last_changed are; an
\* acquire that has selected one goes from the mark to the change-URL call,
\* makes that call once, and returns only after it.
C24_MobileHop ==
    [][/\ \A id \in DOMAIN db :
              db[id].type = ProxyTypeMobileHop /\ db[id].is_unique =>
                  (Eligible(db[id], maxUsed, Unix(clock))
                      <=> ~db[id].running /\ db[id].error = "")
       /\ \A p \in Procs :
              OnMobileHop(p) =>
                  /\ acq[p].pc = "mark" => acq'[p].pc \in {"mark", "changeurl"}
                  /\ acq'[p].pc = "changeurl" => acq[p].pc \in {"mark", "changeurl"}
                  /\ acq'[p].pc = "idle" => acq[p].pc \in {"reset", "sleep"}]_vars

-----------------------------------------------------------------------------
(* C25 *)

\* the row that the string parts of the call of this step collides with
RowOf(parts) == CHOOSE id \in IdsWithKey(db, KeyOf(parts)) : TRUE

\* what the loop of the load computes for the string parts before the upsert
FieldsOf(parts) ==
    LET f0 == ParseProxyString(parts)
    IN  [f0 EXCEPT !.changeUrl = KiotRegion(parts, f0)]

\* the existing row id took the descriptor that the string parts and the
\* vendor's answer a give at the instant now, and kept its place
Updated(id, parts, a, now) ==
    LET f == FieldsOf(parts)
        v == FetchAtLoad(f, a, now)
    IN  /\ id \in DOMAIN db' /\ id \in IdsWithKey(db', KeyOf(parts))
        /\ db'[id].proxy_str = v.proxyStr
        /\ db'[id].min_time = f.minTime
        /\ db'[id].change_url = f.changeUrl
        /\ db'[id].last_changed = Unix(v.lastChanged)

\* the step is a call of LoadProxiesFromList by itself
Loads == Configures /\ loaded'.op = "LoadList"

\* the counters of the row id are as they were before the call
CountersKept(id) ==
    /\ db'[id].used = db[id].used
    /\ db'[id].running = db[id].running

\* the rows inserted by the call of this step start unused and not running
SeededFresh ==
    \A id \in DOMAIN db' \ DOMAIN db :
        /\ db'[id].used = 0 /\ ~db'[id].running
        /\ proxyCache'[id].Used = 0 /\ ~proxyCache'[id].Running

-----------------------------------------------------------------------------
(* C26 *)

\* the row id is a static entry that the step does not delete
StaticKept(id) ==
    /\ db[id].type = ProxyTypeStatic
    /\ ~(Configures /\ loaded'.clear)

\* the string parts of the call of this step names the fingerprint of row id
Names(parts, id) == ParseOk(parts) /\ id \in IdsWithKey(db, KeyOf(parts))

\* the call of this step loads a string of the kinds in vendorKeyed (TRUE:
\* the api-key kinds, FALSE: the others) that names the fingerprint of row id
NamedBy(id, vendorKeyed) ==
    /\ Configures
    /\ \E i \in 1 .. Len(loaded'.list) :
           /\ Names(loaded'.list[i], id)
           /\ IsVendorKeyed(FieldsOf(loaded'.list[i])) = vendorKeyed

\* C26 as stated (I4): once a static entry has been inserted, its credential
\* and last_changed never change, whatever configure / LoadProxiesFromList
\* (reloading the same string included), acquire, release and clearError do.
C26_StaticFrozen ==
    [][\A id \in DOMAIN db :
           StaticKept(id) =>
               /\ id \in DOMAIN db' /\ id \in DOMAIN proxyCache'
               /\ db'[id].type = ProxyTypeStatic
               /\ db'[id].proxy_str = db[id].proxy_str
               /\ proxyCache'[id].ProxyStr = proxyCache[id].ProxyStr
               /\ db'[id].last_changed = db[id].last_changed
               /\ proxyCache'[id].LastChanged = proxyCache[id].LastChanged]_vars

\* C26, amended: once a static entry has been inserted, acquire, release and
\* clearError never change its credential or its last_changed; a load
\* changes its credential only if a vendor string names its fingerprint, and
\* changes its last_changed only if a string names its fingerprint again,
\* and then to the load time.
C26_StaticReloaded ==
    [][\A id \in DOMAIN db :
           StaticKept(id) =>
               /\ id \in DOMAIN db' /\ id \in DOMAIN proxyCache'
               /\ db'[id].type = ProxyTypeStatic
               /\ ~NamedBy(id, TRUE) =>
                      /\ db'[id].proxy_str = db[id].proxy_str
                      /\ proxyCache'[id].ProxyStr = proxyCache[id].ProxyStr
               /\ ~NamedBy(id, TRUE) /\ ~NamedBy(id, FALSE) =>
                      /\ db'[id].last_changed = db[id].last_changed
                      /\ proxyCache'[id].LastChanged = proxyCache[id].LastChanged
               /\ NamedBy(id, FALSE) =>
                      /\ db'[id].last_changed = Unix(clock)
                      /\ proxyCache'[id].LastChanged = clock]_vars

\* a static entry that was handed out is named again by a load in a later
\* second, and has the time of that load
C26_StaticStamped ==
    /\ loaded.again
    /\ \E id \in DOMAIN db :
           /\ db[id].type = ProxyTypeStatic
           /\ db[id].used > 0
           /\ \E i \in 1 .. Len(loaded.list) :
                  ParseOk(loaded.list[i]) /\ db[id].unique_key = KeyOf(loaded.list[i])
           /\ db[id].last_changed = Unix(clock)
           /\ proxyCache[id].LastChanged = clock
           /\ clock >= TicksPerSec

-----------------------------------------------------------------------------
(* C27 *)

\* caller p waits for GetNewProxy, for the change URL, or sleeps the quiet
\* period: it is outside the sections of pm.mu
Blocked(p) == acq[p].pc \in {"vendor", "changeurl", "sleep"}

\* the step leaves caller p where it is
Stays(p) == acq'[p] = acq[p]

\* one more section of the call of caller q
Section(q) ==
    \/ MarkRunning(q)
    \/ GetNewProxy(q)
    \/ VendorFailed(q)
    \/ VendorRotated(q)
    \/ CallChangeURL(q)
    \/ ChangeURLFailed(q)
    \/ ChangeURLRotated(q)
    \/ WakeUp(q)
    \/ Increment(q)

\* the query of caller q picks an entry other than id
PicksOther(q, id) ==
    /\ Select(q)
    /\ \/ acq'[q].pc = "mark" /\ acq'[q].p.ID # id
       \/ lastReturn'.kind = "ok" /\ lastReturn'.caller = q /\ lastReturn'.id # id

-----------------------------------------------------------------------------
(* C28 *)

Horizon == 3   \* seconds after a load over which canChangeIP is followed

\* the answer of a vendor whose current credential is not yet rotatable
CurrentAnswer == CHOOSE a \in LoadAnswers : a.kind = "current"

\* the vendor strings that the call of this step loads
VendorStrings(list) ==
    {i \in Applied(list) : IsVendorKeyed(FieldsOf(list[i]))}

\* the row of the string parts after the call of this step
RowAfter(parts) == CHOOSE id \in IdsWithKey(db', KeyOf(parts)) : TRUE

\* GetCurrentProxy answered the load of the entry c: it has the current
\* credential and no error
FromCurrent(c) == c.ProxyStr = CurrentAnswer.cred /\ c.Error = ""

\* the entry c, loaded at the instant now, first satisfies canChangeIP
\* secs seconds later
FirstRotatable(c, now, secs) ==
    \A t \in 0 .. Seconds(Horizon) : CanChangeIP(c, now + t) <=> t >= Seconds(secs)

BackDate(minTime, r) == IF minTime - r < 0 THEN 0 ELSE minTime - r

Least(m, n) == IF m < n THEN m ELSE n

-----------------------------------------------------------------------------
(* C29 *)

\* caller p commits the rotation of a vendor or mobilehop entry in this step
CommitsRotation(p) ==
    /\ acq[p].pc \in {"answered", "reset"}
    /\ acq[p].resp.ok
    /\ acq'[p].pc \in {"idle", "sleep"}

\* the rotation of caller p is in the table and in the cache after the step
Committed(p, cred) ==
    LET id == acq[p].p.ID
    IN  /\ id \in DOMAIN db' /\ id \in DOMAIN proxyCache'
        /\ db'[id].proxy_str = cred /\ proxyCache'[id].ProxyStr = cred
        /\ db'[id].used = 1 /\ proxyCache'[id].Used = 1
        /\ db'[id].last_changed = Unix(acq[p].now)
        /\ proxyCache'[id].LastChanged = acq[p].now

\* the credential that the rotation of caller p gives the entry
RotatedCredential(p) ==
    IF acq[p].pc = "answered" THEN acq[p].resp.cred ELSE acq[p].p.ProxyStr

\* the entry that caller p works on is marked running
RunningFor(p) ==
    LET id == acq[p].p.ID
    IN  /\ id \in DOMAIN db /\ db[id].running
        /\ id \in DOMAIN proxyCache /\ proxyCache[id].Running

\* C29: an acquire that rotates a vendor or mobilehop entry commits the new
\* credential, used = 1 and last_changed to the table and the cache before
\* the wait of ChangeProxyWaitTime begins; the entry is running during the
\* whole wait; the call returns the new credential, and only after the wait;
\* an acquire that does not rotate does not wait.
C29_QuietPeriod ==
    [][\A p \in Procs :
           /\ CommitsRotation(p) =>
                  /\ Committed(p, RotatedCredential(p))
                  /\ changeProxyWaitTime > 0 =>
                         /\ acq'[p].pc = "sleep"
                         /\ acq'[p].p.ProxyStr = RotatedCredential(p)
                         /\ lastReturn' = lastReturn
           /\ acq[p].pc # "sleep" /\ acq'[p].pc = "sleep" =>
                  CommitsRotation(p) /\ changeProxyWaitTime > 0
           /\ acq[p].pc = "sleep" =>
                  /\ RunningFor(p)
                  /\ acq'[p] # acq[p] =>
                         /\ HandsOut(p, acq[p].p.ID)
                         /\ lastReturn'.cred = acq[p].p.ProxyStr]_vars

-----------------------------------------------------------------------------
(* C30 *)

\* the call of caller p, whose context has been cancelled, returns in this step
ReturnsCancelled(p) ==
    /\ p \in cancelled
    /\ acq[p].pc # "idle"
    /\ acq'[p].pc = "idle"

\* the rotation that the sleeping call of caller p has committed
RotationOf(r) == <<r.proxy_str, r.used, r.last_changed>>

\* C30 as stated: a call whose context is cancelled while it waits for the
\* vendor, for the change URL, or sleeps ChangeProxyWaitTime returns
\* RotationFailed; a vendor entry is then quarantined, a mobilehop entry
\* released, and a rotation committed before the cancel stays committed.
C30_Cancellation ==
    [][\A p \in Procs :
           ReturnsCancelled(p) =>
               LET id == acq[p].p.ID
               IN  /\ lastReturn'.caller = p
                   /\ lastReturn'.kind = "RotationFailed"
                   /\ VendorRow(db[id]) => db'[id].error # ""
                   /\ db[id].type = ProxyTypeMobileHop => ~db'[id].running
                   /\ acq[p].pc = "sleep" => RotationOf(db'[id]) = RotationOf(db[id])]_vars

-----------------------------------------------------------------------------
(* C33 *)

\* the row r is within the usage cap
WithinCap(r) == r.used <= maxUsed

\* C33 as stated: with maxUsed >= 1, in every reachable state every unique
\* entry has used <= maxUsed, whatever acquire and release calls are made and
\* however they interleave.
C33_UsageCap ==
    maxUsed >= 1 => \A id \in DOMAIN db : db[id].is_unique => WithinCap(db[id])

-----------------------------------------------------------------------------
(* C34 *)

\* the entry id is unique and passes the WHERE clause of the candidate query
EligibleUnique(id) ==
    /\ id \in DOMAIN db
    /\ db[id].is_unique
    /\ Eligible(db[id], maxUsed, Unix(clock))

\* the most recent call of GetAvailableProxy has returned the entry id
ReturnedLast(id) == lastReturn.kind = "ok" /\ lastReturn.id = id

\* C34 as stated: an eligible unique entry of the catalog is eventually
\* returned by some acquire (or stops being eligible first), also when the
\* catalog holds a shared entry without error.
C34_Reachable ==
    \A id \in 1 .. MaxLoadRows :
        [](EligibleUnique(id) =>
               <>(ReturnedLast(id) \/ ~EligibleUnique(id)))

\* C34, amended: when the catalog holds eligible unique entries and no shared
\* entry without error, the query of the next acquire selects one of them;
\* a shared entry without error is selected before every unique entry, so
\* while the catalog holds one no unique entry is selected.
C34_SharedFirst ==
    [][\A p \in Procs :
           Queries(p) =>
               /\ Shared # {} => \E id \in Shared : Picks(p, id)
               /\ Shared # {} => \A id \in DOMAIN db : EligibleUnique(id) => ~Picks(p, id)
               /\ Shared = {} /\ (\E id \in DOMAIN db : EligibleUnique(id)) =>
                      \E id \in DOMAIN db : EligibleUnique(id) /\ Picks(p, id)]_vars

\* the shared entry has been handed out while a unique entry that was never
\* used stands eligible beside it
C34_Starved ==
    /\ Quiescent
    /\ lastReturn.kind = "ok" /\ lastReturn.id \in Shared
    /\ \E id \in DOMAIN db : EligibleUnique(id) /\ db[id].used = 0

-----------------------------------------------------------------------------
(* C35 *)

\* C35 as stated: the id that a successful acquire returns is in the catalog
\* when the call returns, and the credential returned is the one stored for
\* it, also when SetConfig with clear-all or a load that changes the
\* credential runs between the query of the call and its later sections.
C35_NoStale ==
    [][\A p \in Procs, id \in Ids :
           HandsOut(p, id) =>
               /\ id \in DOMAIN db' /\ id \in DOMAIN proxyCache'
               /\ Materializes(lastReturn'.cred, db'[id])
               /\ proxyCache'[id].ProxyStr = db'[id].proxy_str]_vars

-----------------------------------------------------------------------------
(* C36 *)

\* the strings of list that are the last ones loaded for their fingerprint
LatestOf(list) ==
    {i \in Applied(list) :
         \A j \in Applied(list) : j > i => KeyOf(list[j]) # KeyOf(list[i])}

\* C36 as stated: after a load every row has the kind named in the string
\* most recently loaded for its fingerprint; the same credential text loaded
\* under one kind and then under another gives one row of the second kind.
C36_KindOfLatest ==
    [][Configures =>
           \A i \in LatestOf(loaded'.list) :
               LET parts == loaded'.list[i]
                   hit   == IdsWithKey(db', KeyOf(parts))
               IN  /\ Cardinality(hit) = 1
                   /\ \A id \in hit :
                          /\ db'[id].type = FieldsOf(parts).pType
                          /\ proxyCache'[id].Type = FieldsOf(parts).pType]_vars

-----------------------------------------------------------------------------
(* GetInstance: the singleton *)

\* what newProxyManager can do: succeed, fail in initDB, fail in initSchema
InitOutcomes == {"ok", "initDB", "initSchema"}

\* newProxyManager: (pm with initialized = true, nil) or (nil, err)
newProxyManager(outcome) ==
    IF outcome = "ok"
    THEN [mgr |-> [nil |-> FALSE, initialized |-> TRUE], err |-> FALSE]
    ELSE [mgr |-> NilManager, err |-> TRUE]

\* GetInstance: err is a local of the call, set only inside the function that
\* once.Do runs, and once.Do runs it in the first call only
GetInstance(outcome) ==
    /\ LET fresh == newProxyManager(outcome)
           err   == IF once THEN FALSE ELSE fresh.err
       IN  /\ instance' = IF once THEN instance ELSE fresh.mgr
           /\ once' = TRUE
           /\ giReturn' = [called |-> TRUE, mgr |-> instance', err |-> err]
    /\ UNCHANGED <<instances, made, fwdReturn, dialed, muLock, call>>
    /\ UNCHANGED pool

-----------------------------------------------------------------------------
(* DumbProxyManager: the registry of forwarders *)

BasePort  == 20000
MaxFwdIds == 2    \* forwarders are started and stopped for proxy ids 1 .. MaxFwdIds
MaxMade   == 3    \* no StartInstance call is made once this many instances were made

FwdIds == 1 .. MaxFwdIds

\* what StartInstance can meet: nothing, ProxyDialerFromURL failing, net.Listen failing
StartOutcomes == {"ok", "dialer", "listen"}

\* DumbProxyInstance.Stop: cancel, shut the server down, close the listener
Stop(objs, i) == [objs EXCEPT ![i].open = FALSE]

\* the ports a listener of this process is open on
Bound(objs) == {objs[i].Port : i \in {j \in DOMAIN objs : objs[j].open}}

\* delete(m, k)
Without(m, k) == [i \in DOMAIN m \ {k} |-> m[i]]

\* StartInstance without the stop of the instance the id already has
StartInstanceKeeping(proxyID, outcome) ==
    /\ Len(made) < MaxMade
    /\ LET port == BasePort + proxyID
           fails == \/ outcome \in {"dialer", "listen"}
                    \/ port \in Bound(made)
       IN  IF fails
           THEN /\ UNCHANGED <<made, instances>>
                /\ fwdReturn' = [op |-> "StartInstance", id |-> proxyID, addr |-> 0,
                                 err |-> TRUE]
           ELSE /\ made' = Append(made, [ProxyID |-> proxyID, Port |-> port,
                                         open |-> TRUE])
                /\ instances' = Without(instances, proxyID) @@ (proxyID :> Len(made) + 1)
                /\ fwdReturn' = [op |-> "StartInstance", id |-> proxyID, addr |-> port,
                                 err |-> FALSE]
    /\ UNCHANGED <<once, instance, giReturn, dialed, muLock, call>>
    /\ UNCHANGED pool

\* StartInstance, under m.mu from its first line to its return. The address it
\* returns is 127.0.0.1:port; addr is the port. net.Listen fails when the port
\* is taken, by this process or by another one.
StartInstance(proxyID, outcome) ==
    /\ Len(made) < MaxMade
    /\ LET stopped == IF proxyID \in DOMAIN instances
                      THEN Stop(made, instances[proxyID]) ELSE made
           kept    == Without(instances, proxyID)
           port    == BasePort + proxyID
           fails   == \/ outcome \in {"dialer", "listen"}
                      \/ port \in Bound(stopped)
       IN  IF fails
           THEN /\ made' = stopped
                /\ instances' = kept
                /\ fwdReturn' = [op |-> "StartInstance", id |-> proxyID, addr |-> 0,
                                 err |-> TRUE]
           ELSE /\ made' = Append(stopped, [ProxyID |-> proxyID, Port |-> port,
                                            open |-> TRUE])
                /\ instances' = kept @@ (proxyID :> Len(made) + 1)
                /\ fwdReturn' = [op |-> "StartInstance", id |-> proxyID, addr |-> port,
                                 err |-> FALSE]
    /\ UNCHANGED <<once, instance, giReturn, dialed, muLock, call>>
    /\ UNCHANGED pool

\* StopInstance, under m.mu
StopInstance(proxyID) ==
    /\ IF proxyID \in DOMAIN instances
       THEN /\ made' = Stop(made, instances[proxyID])
            /\ instances' = Without(instances, proxyID)
       ELSE UNCHANGED <<made, instances>>
    /\ fwdReturn' = [op |-> "StopInstance", id |-> proxyID, addr |-> 0, err |-> FALSE]
    /\ UNCHANGED <<once, instance, giReturn, dialed, muLock, call>>
    /\ UNCHANGED pool

\* StopAll, under m.mu
StopAll ==
    /\ made' = [i \in DOMAIN made |->
                   IF \E k \in DOMAIN instances : instances[k] = i
                   THEN [made[i] EXCEPT !.open = FALSE] ELSE made[i]]
    /\ instances' = <<>>
    /\ fwdReturn' = [op |-> "StopAll", id |-> NoId, addr |-> 0, err |-> FALSE]
    /\ UNCHANGED <<once, instance, giReturn, dialed, muLock, call>>
    /\ UNCHANGED pool

\* GetInstanceCount
GetInstanceCount == Cardinality(DOMAIN instances)

NextForward ==
    \/ \E outcome \in InitOutcomes : GetInstance(outcome)
    \/ \E proxyID \in FwdIds, outcome \in StartOutcomes : StartInstance(proxyID, outcome)
    \/ \E proxyID \in FwdIds : StopInstance(proxyID)
    \/ StopAll

SpecForward == Init /\ [][NextForward]_vars

-----------------------------------------------------------------------------
(* C38 *)

\* C38: GetInstance never returns a nil manager together with a nil error: on
\* every call, also one made after a first call whose initialization failed,
\* the manager returned is non-nil and initialized, or the error is non-nil.
C38_NeverNilNil ==
    giReturn.called =>
        \/ ~giReturn.mgr.nil /\ giReturn.mgr.initialized
        \/ giReturn.err

-----------------------------------------------------------------------------
(* C37 *)

\* the instances of proxy id k whose listener is open
OpenFor(k) == {i \in DOMAIN made : made[i].open /\ made[i].ProxyID = k}

\* the call that has just returned
Starts(k) == \E outcome \in StartOutcomes : StartInstance(k, outcome)

\* C37: after any sequence of StartInstance, StopInstance and StopAll calls an
\* id has at most one instance, the registered one, and it listens on port
\* 20000 + id; StartInstance on an id that has an instance stops that one
\* first; when StartInstance returns an error the id has no instance; after
\* StopAll the instance count is 0; StopInstance on an unknown id changes
\* nothing and returns success.
C37_Registry ==
    [][/\ \A k \in FwdIds :
            /\ Cardinality(OpenFor(k))' <= 1
            /\ (OpenFor(k) = IF k \in DOMAIN instances THEN {instances[k]} ELSE {})'
            /\ k \in DOMAIN instances' => made'[instances'[k]].Port = BasePort + k
            /\ Starts(k) /\ k \in DOMAIN instances => ~made'[instances[k]].open
            /\ Starts(k) /\ fwdReturn'.err => k \notin DOMAIN instances'
            /\ Starts(k) /\ ~fwdReturn'.err => fwdReturn'.addr = BasePort + k
            /\ StopInstance(k) /\ k \notin DOMAIN instances =>
                   /\ UNCHANGED <<instances, made>>
                   /\ ~fwdReturn'.err
       /\ StopAll => GetInstanceCount' = 0
      ]_vars

\* StartInstance has replaced the instance of an id: the old one is closed, the
\* new one is registered
C37_Replaced ==
    /\ fwdReturn.op = "StartInstance"
    /\ ~fwdReturn.err
    /\ \E i \in DOMAIN made : made[i].ProxyID = fwdReturn.id /\ ~made[i].open
    /\ fwdReturn.id \in DOMAIN instances

-----------------------------------------------------------------------------
(* AssetRoutingDialer *)

\* A string is a sequence of tokens. A token is "/", ".", "=", "&", ",", "-" or
\* a run of letters; the strings the dialer looks for are made of whole tokens.

\* strings.ToLower, token by token
LowerOf(t) ==
    CASE t = "JS"       -> "js"
      [] t = "CSS"      -> "css"
      [] t = "Assets"   -> "assets"
      [] t = "API"      -> "api"
      [] t = "Image"    -> "image"
      [] t = "Callback" -> "callback"
      [] OTHER          -> t

ToLower(str) == [i \in DOMAIN str |-> LowerOf(str[i])]

\* strings.Contains
Contains(str, substr) ==
    \E i \in 0 .. Len(str) - Len(substr) :
        \A j \in 1 .. Len(substr) : str[i + j] = substr[j]

\* path.Ext: from the last dot of the last slash-separated element, or empty
Ext(urlPath) ==
    LET dots == {i \in DOMAIN urlPath :
                    /\ urlPath[i] = "."
                    /\ \A j \in i .. Len(urlPath) : urlPath[j] /= "/"}
        last == CHOOSE i \in dots : \A j \in dots : j <= i
    IN  IF dots = {} THEN <<>> ELSE SubSeq(urlPath, last, Len(urlPath))

\* the keys of staticAssetExtensions, without their dot
ExtensionNames ==
    {"js", "css", "mjs", "cjs",
     "png", "jpg", "jpeg", "gif", "svg", "webp", "ico", "avif", "bmp", "tiff", "tif",
     "woff", "woff2", "ttf", "otf", "eot",
     "mp4", "webm", "mkv", "avi", "mov", "wmv", "flv", "m4v",
     "mp3", "ogg", "wav", "flac", "m4a", "aac", "wma",
     "pdf", "map"}

staticAssetExtensions(ext) ==
    /\ Len(ext) = 2
    /\ ext[1] = "."
    /\ ext[2] \in ExtensionNames

\* the media types looked for in the Accept header
AcceptMarks ==
    { <<"image", "/">>, <<"video", "/">>, <<"audio", "/">>, <<"font", "/">>,
      <<"application", "/", "font">> }

\* the directories looked for in the lower-cased path
AssetDirs ==
    { <<"/", d, "/">> : d \in {"assets", "static", "images", "img", "fonts", "css",
                               "js", "media"} }

\* isStaticAsset with the query parsed: a parameter named callback
isStaticAssetByParam(has, req) ==
    /\ has
    /\ LET lowerPath == ToLower(req.path)
       IN  \/ staticAssetExtensions(ToLower(Ext(req.path)))
           \/ \E m \in AcceptMarks : Contains(req.accept, m)
           \/ /\ \E d \in AssetDirs : Contains(lowerPath, d)
              /\ ~Contains(lowerPath, <<"/", "api", "/">>)
              /\ ~\E i \in DOMAIN req.query :
                     /\ req.query[i] = "callback"
                     /\ i = 1 \/ req.query[i - 1] = "&"
                     /\ i = Len(req.query) \/ req.query[i + 1] \in {"=", "&"}

\* isStaticAsset: has is whether the context carries a request
isStaticAsset(has, req) ==
    /\ has
    /\ LET lowerPath == ToLower(req.path)
       IN  \/ staticAssetExtensions(ToLower(Ext(req.path)))
           \/ \E m \in AcceptMarks : Contains(req.accept, m)
           \/ /\ \E d \in AssetDirs : Contains(lowerPath, d)
              /\ ~Contains(lowerPath, <<"/", "api", "/">>)
              /\ req.query = <<>> \/ ~Contains(req.query, <<"callback">>)

\* the requests dialed for
Paths ==
    { <<"/", "x">>,
      <<"/", "x", ".", "html">>,
      <<"/", "x", ".", "js">>,
      <<"/", "x", ".", "JS">>,
      <<"/", "x", ".", "js", "/", "y">>,
      <<"/", "x", ".", "png", ".", "html">>,
      <<"/", "api", "/", "x", ".", "css">>,
      <<"/", "assets">>,
      <<"/", "assets", "/", "x">>,
      <<"/", "Assets", "/", "x">>,
      <<"/", "api", "/", "static", "/", "x">>,
      <<"/", "img", "/", "API", "/", "x">>,
      <<"/", "api", ".", "x", "/", "js", "/", "y">> }

Accepts ==
    { <<>>,
      <<"text", "/", "html">>,
      <<"application", "/", "json">>,
      <<"image", "/", "png">>,
      <<"Image", "/", "png">>,
      <<"text", "/", "html", ",", "image", "/", "webp">>,
      <<"video", "/", "mp4">>,
      <<"audio", "/", "ogg">>,
      <<"font", "/", "woff">>,
      <<"application", "/", "font", "-", "woff">>,
      <<"application", "/", "x", "-", "font">> }

RawQueries ==
    { <<>>,
      <<"v", "=", "1">>,
      <<"callback", "=", "f">>,
      <<"v", "=", "1", "&", "callback">>,
      <<"u", "=", "callback">>,
      <<"json", "callback", "=", "f">>,
      <<"Callback", "=", "f">> }

Requests == [path : Paths, accept : Accepts, query : RawQueries]

\* DialContext: the direct dialer for a static asset, the upstream dialer otherwise
DialContext(has, req) ==
    /\ dialed' = [via |-> IF isStaticAsset(has, req) THEN "direct" ELSE "upstream",
                  has |-> has,
                  req |-> req]
    /\ UNCHANGED <<once, instance, giReturn, instances, made, fwdReturn, muLock, call>>
    /\ UNCHANGED pool

\* Dial: no context, the upstream dialer
Dial ==
    /\ dialed' = [via |-> "upstream", has |-> FALSE, req |-> NoRequest]
    /\ UNCHANGED <<once, instance, giReturn, instances, made, fwdReturn, muLock, call>>
    /\ UNCHANGED pool

NextRoute ==
    \/ \E req \in Requests : DialContext(TRUE, req)
    \/ DialContext(FALSE, NoRequest)
    \/ Dial

SpecRoute == Init /\ [][NextRoute]_vars

-----------------------------------------------------------------------------
(* C31 *)

\* (a) the lower-cased extension of the path is in the static-extension set
ByExtension(req) == staticAssetExtensions(ToLower(Ext(req.path)))

\* (b) the Accept header contains one of the media types
ByAccept(req) == \E m \in AcceptMarks : Contains(req.accept, m)

\* the lower-cased path contains an asset directory and does not contain /api/
ByDirectory(req) ==
    /\ \E d \in AssetDirs : Contains(ToLower(req.path), d)
    /\ ~Contains(ToLower(req.path), <<"/", "api", "/">>)

\* the names of the parameters of a query: what stands before "=" in each
\* "&"-separated part
ParamNames(query) ==
    LET starts == {i \in DOMAIN query : i = 1 \/ query[i - 1] = "&"}
        stop(i) == CHOOSE j \in i .. Len(query) + 1 :
                       /\ j = Len(query) + 1 \/ query[j] \in {"=", "&"}
                       /\ \A k \in i .. j - 1 : query[k] \notin {"=", "&"}
    IN  {SubSeq(query, i, stop(i) - 1) : i \in starts}

\* C31 as stated: a dial is direct iff it has a request and (a) or (b) or the
\* path is in an asset directory, not under /api/, and the query has no
\* parameter named callback; every other dial uses the upstream dialer.
C31_Routing ==
    dialed.via /= "none" =>
        /\ dialed.via \in {"direct", "upstream"}
        /\ dialed.via = "direct" <=>
               /\ dialed.has
               /\ \/ ByExtension(dialed.req)
                  \/ ByAccept(dialed.req)
                  \/ /\ ByDirectory(dialed.req)
                     /\ <<"callback">> \notin ParamNames(dialed.req.query)

\* C31: a dial is direct iff it has a request and (a) or (b) or the path is in
\* an asset directory, not under /api/, and the raw query does not contain the
\* string callback; every other dial uses the upstream dialer.
C31_RoutingRawQuery ==
    dialed.via /= "none" =>
        /\ dialed.via \in {"direct", "upstream"}
        /\ dialed.via = "direct" <=>
               /\ dialed.has
               /\ \/ ByExtension(dialed.req)
                  \/ ByAccept(dialed.req)
                  \/ /\ ByDirectory(dialed.req)
                     /\ \A i \in DOMAIN dialed.req.query :
                            dialed.req.query[i] /= "callback"

\* a request for an asset directory whose query holds callback, but in no
\* parameter name, went through the upstream dialer
C31_CallbackValue ==
    /\ dialed.has
    /\ dialed.via = "upstream"
    /\ ByDirectory(dialed.req)
    /\ ~ByExtension(dialed.req)
    /\ ~ByAccept(dialed.req)
    /\ <<"callback">> \notin ParamNames(dialed.req.query)

-----------------------------------------------------------------------------
(* pm.mu: the calls seen as steps on the lock *)

\* sync.RWMutex: RLock waits while a writer holds the lock or waits for it
CanRLock(m) == m.writer = Nil /\ m.pending = {}

\* sync.RWMutex: Lock waits while a reader or a writer holds the lock
CanLock(m) == m.writer = Nil /\ m.readers = {}

Returned(outcome) == [op |-> "none", pc |-> "idle", rev |-> "", last |-> outcome]

\* the goroutine has called Lock() and is inside it; where it is once it has the lock
AfterLock(pc) ==
    CASE pc = "lockMark"   -> "mark"
      [] pc = "lockCommit" -> "commit"
      [] pc = "lock"       -> "locked"
      [] pc = "relock"     -> "loading"
      [] OTHER             -> pc

InsideLock == {"lockMark", "lockCommit", "lock", "relock"}

\* Lock() returns
TakeLock(p) ==
    /\ call[p].pc \in InsideLock
    /\ p \in muLock.pending
    /\ CanLock(muLock)
    /\ muLock' = [muLock EXCEPT !.writer = p, !.pending = @ \ {p}]
    /\ call' = [call EXCEPT ![p].pc = AfterLock(@)]
    /\ UNCHANGED <<once, instance, giReturn, instances, made, fwdReturn, dialed>>
    /\ UNCHANGED pool

\* GetAvailableProxy is called
CallAcquire(p) ==
    /\ call[p].pc = "idle"
    /\ call' = [call EXCEPT ![p] = [op |-> "GetAvailableProxy", pc |-> "rlock",
                                    rev |-> "", last |-> "none"]]
    /\ UNCHANGED <<once, instance, giReturn, instances, made, fwdReturn, dialed, muLock>>
    /\ UNCHANGED pool

\* pm.mu.RLock() returns
TakeRLock(p) ==
    /\ call[p].pc = "rlock"
    /\ CanRLock(muLock)
    /\ muLock' = [muLock EXCEPT !.readers = @ \cup {p}]
    /\ call' = [call EXCEPT ![p].pc = "query"]
    /\ UNCHANGED <<once, instance, giReturn, instances, made, fwdReturn, dialed>>
    /\ UNCHANGED pool

QueryOutcomes == {"query error", "no candidate", "row"}

\* the query with the read lock still held when the call goes on
QueryRowsHolding(p, outcome) ==
    /\ call[p].pc = "query"
    /\ p \in muLock.readers
    /\ IF outcome = "row"
       THEN /\ call' = [call EXCEPT ![p].pc = "scanned"]
            /\ UNCHANGED muLock
       ELSE /\ call' = [call EXCEPT ![p] = Returned(outcome)]
            /\ muLock' = [muLock EXCEPT !.readers = @ \ {p}]
    /\ UNCHANGED <<once, instance, giReturn, instances, made, fwdReturn, dialed>>
    /\ UNCHANGED pool

\* the query: RUnlock and return on a query error and on an empty result,
\* Scan, rows.Close and RUnlock on a row
QueryRows(p, outcome) ==
    /\ call[p].pc = "query"
    /\ p \in muLock.readers
    /\ muLock' = [muLock EXCEPT !.readers = @ \ {p}]
    /\ call' = [call EXCEPT ![p] = IF outcome = "row"
                                   THEN [@ EXCEPT !.pc = "scanned"]
                                   ELSE Returned(outcome)]
    /\ UNCHANGED <<once, instance, giReturn, instances, made, fwdReturn, dialed>>
    /\ UNCHANGED pool

ScanOutcomes == {"scan error", "non-unique", "unique"}

\* after RUnlock: return on a scan error and for an entry that is not unique,
\* pm.mu.Lock() for the mark-running UPDATE otherwise
ScanRow(p, outcome) ==
    /\ call[p].pc = "scanned"
    /\ IF outcome = "unique"
       THEN /\ call' = [call EXCEPT ![p].pc = "lockMark"]
            /\ muLock' = [muLock EXCEPT !.pending = @ \cup {p}]
       ELSE /\ call' = [call EXCEPT ![p] = Returned(outcome)]
            /\ UNCHANGED muLock
    /\ UNCHANGED <<once, instance, giReturn, instances, made, fwdReturn, dialed>>
    /\ UNCHANGED pool

\* the mark-running UPDATE: Unlock on both branches, return when it failed
MarkRow(p, ok) ==
    /\ call[p].pc = "mark"
    /\ muLock.writer = p
    /\ muLock' = [muLock EXCEPT !.writer = Nil]
    /\ call' = [call EXCEPT ![p] = IF ok THEN [@ EXCEPT !.pc = "marked"]
                                   ELSE Returned("mark-running failure")]
    /\ UNCHANGED <<once, instance, giReturn, instances, made, fwdReturn, dialed>>
    /\ UNCHANGED pool

\* how the call ends once the entry is marked
CommitOutcomes == {"rotation failure", "rotation success", "plain increment"}

\* outside the lock: canChangeIP, the vendor's answer or the change URL's; then
\* pm.mu.Lock() for the write that goes with it
Decide(p, outcome) ==
    /\ call[p].pc = "marked"
    /\ call' = [call EXCEPT ![p].pc = "lockCommit", ![p].last = outcome]
    /\ muLock' = [muLock EXCEPT !.pending = @ \cup {p}]
    /\ UNCHANGED <<once, instance, giReturn, instances, made, fwdReturn, dialed>>
    /\ UNCHANGED pool

\* the write, Unlock, (the quiet period,) return
CommitRow(p) ==
    /\ call[p].pc = "commit"
    /\ muLock.writer = p
    /\ muLock' = [muLock EXCEPT !.writer = Nil]
    /\ call' = [call EXCEPT ![p] = Returned(call[p].last)]
    /\ UNCHANGED <<once, instance, giReturn, instances, made, fwdReturn, dialed>>
    /\ UNCHANGED pool

\* ReleaseProxy and ClearProxyError: pm.mu.Lock(); defer pm.mu.Unlock()
ExclusiveOps == {"ReleaseProxy", "ClearProxyError"}

CallExclusive(p, op) ==
    /\ call[p].pc = "idle"
    /\ call' = [call EXCEPT ![p] = [op |-> op, pc |-> "lock", rev |-> "", last |-> "none"]]
    /\ muLock' = [muLock EXCEPT !.pending = @ \cup {p}]
    /\ UNCHANGED <<once, instance, giReturn, instances, made, fwdReturn, dialed>>
    /\ UNCHANGED pool

ReturnExclusive(p, outcome) ==
    /\ call[p].op \in ExclusiveOps
    /\ call[p].pc = "locked"
    /\ muLock.writer = p
    /\ muLock' = [muLock EXCEPT !.writer = Nil]
    /\ call' = [call EXCEPT ![p] = Returned(outcome)]
    /\ UNCHANGED <<once, instance, giReturn, instances, made, fwdReturn, dialed>>
    /\ UNCHANGED pool

\* SetConfig: pm.mu.Lock(); defer pm.mu.Unlock(). rev is the revision of the
\* file: "locked" loads through loadProxiesFromListLocked (goproxy.go:278),
\* "relock" through loadProxiesFromList (goproxy.go:575)
Revisions == {"locked", "relock"}

CallSetConfig(p, rev) ==
    /\ call[p].pc = "idle"
    /\ call' = [call EXCEPT ![p] = [op |-> "SetConfig", pc |-> "lock", rev |-> rev,
                                    last |-> "none"]]
    /\ muLock' = [muLock EXCEPT !.pending = @ \cup {p}]
    /\ UNCHANGED <<once, instance, giReturn, instances, made, fwdReturn, dialed>>
    /\ UNCHANGED pool

\* goproxy.go:575: SetConfig calls loadProxiesFromList, whose first line is
\* pm.mu.Lock()
ConfigLoad(p) ==
    /\ call[p].op = "SetConfig"
    /\ call[p].rev = "relock"
    /\ call[p].pc = "locked"
    /\ call' = [call EXCEPT ![p].pc = "relock"]
    /\ muLock' = [muLock EXCEPT !.pending = @ \cup {p}]
    /\ UNCHANGED <<once, instance, giReturn, instances, made, fwdReturn, dialed>>
    /\ UNCHANGED pool

ConfigOutcomes == {"clear-all failure", "load failure", "success"}

\* SetConfig returns and the deferred Unlock runs: after the load under the
\* lock held (goproxy.go:278), after loadProxiesFromList has returned
\* (goproxy.go:575, where there is no clear-all)
ConfigReturn(p, outcome) ==
    /\ call[p].op = "SetConfig"
    /\ \/ call[p].rev = "locked" /\ call[p].pc = "locked"
       \/ call[p].rev = "relock" /\ call[p].pc = "loading"
                                 /\ outcome /= "clear-all failure"
    /\ muLock.writer = p
    /\ muLock' = [muLock EXCEPT !.writer = Nil]
    /\ call' = [call EXCEPT ![p] = Returned(outcome)]
    /\ UNCHANGED <<once, instance, giReturn, instances, made, fwdReturn, dialed>>
    /\ UNCHANGED pool

\* a step of a call in progress
Step ==
    \E p \in Procs :
        \/ TakeRLock(p)
        \/ TakeLock(p)
        \/ \E outcome \in QueryOutcomes : QueryRows(p, outcome)
        \/ \E outcome \in ScanOutcomes : ScanRow(p, outcome)
        \/ \E ok \in BOOLEAN : MarkRow(p, ok)
        \/ \E outcome \in CommitOutcomes : Decide(p, outcome)
        \/ CommitRow(p)
        \/ \E outcome \in {"ok", "error"} : ReturnExclusive(p, outcome)
        \/ ConfigLoad(p)
        \/ \E outcome \in ConfigOutcomes : ConfigReturn(p, outcome)

\* GetAvailableProxy, ReleaseProxy, ClearProxyError and the SetConfig that goes
\* with them, called from two goroutines
NextLock ==
    \/ \E p \in Procs : CallAcquire(p)
    \/ \E p \in Procs : TakeRLock(p)
    \/ \E p \in Procs : TakeLock(p)
    \/ \E p \in Procs, outcome \in QueryOutcomes : QueryRows(p, outcome)
    \/ \E p \in Procs, outcome \in ScanOutcomes : ScanRow(p, outcome)
    \/ \E p \in Procs, ok \in BOOLEAN : MarkRow(p, ok)
    \/ \E p \in Procs, outcome \in CommitOutcomes : Decide(p, outcome)
    \/ \E p \in Procs : CommitRow(p)
    \/ \E p \in Procs, op \in ExclusiveOps : CallExclusive(p, op)
    \/ \E p \in Procs, outcome \in {"ok", "error"} : ReturnExclusive(p, outcome)
    \/ \E p \in Procs : CallSetConfig(p, "locked")
    \/ \E p \in Procs, outcome \in ConfigOutcomes : ConfigReturn(p, outcome)

SpecLock == Init /\ [][NextLock]_vars

\* SetConfig in both revisions of goproxy.go, with ReleaseProxy, from two
\* goroutines; a goroutine inside Lock() gets the lock when it is free often enough
NextConfigure ==
    \/ \E p \in Procs, rev \in Revisions : CallSetConfig(p, rev)
    \/ \E p \in Procs : CallExclusive(p, "ReleaseProxy")
    \/ \E p \in Procs : TakeLock(p)
    \/ \E p \in Procs, outcome \in {"ok", "error"} : ReturnExclusive(p, outcome)
    \/ \E p \in Procs : ConfigLoad(p)
    \/ \E p \in Procs, outcome \in ConfigOutcomes : ConfigReturn(p, outcome)

SpecConfigure ==
    /\ Init
    /\ [][NextConfigure]_vars
    /\ \A p \in Procs :
           /\ SF_vars(TakeLock(p))
           /\ WF_vars(ConfigLoad(p))
           /\ WF_vars(\E outcome \in ConfigOutcomes : ConfigReturn(p, outcome))
           /\ WF_vars(\E outcome \in {"ok", "error"} : ReturnExclusive(p, outcome))

-----------------------------------------------------------------------------
(* C32 *)

\* caller p holds no part of pm.mu and waits for none
Unheld(p) ==
    /\ p \notin muLock.readers
    /\ muLock.writer /= p
    /\ p \notin muLock.pending

\* C32: whichever way a GetAvailableProxy call returns, it holds no part of the
\* pool lock afterwards; a call never asks for the write lock while it holds
\* the read lock; and whenever a call of acquire, release, clearError or
\* configure is in progress, some call in progress can take a step.
C32_NoDeadlock ==
    \A p \in Procs :
        /\ call[p].pc = "idle" => Unheld(p)
        /\ p \in muLock.pending => p \notin muLock.readers
        /\ call[p].pc /= "idle" => ENABLED Step

\* one call has returned after a rotation while the other, past its query and
\* its mark-running section, holds the write lock for its own commit
C32_ReturnedWhileHeld ==
    /\ call["c1"].pc = "idle"
    /\ call["c1"].last = "rotation success"
    /\ call["c2"].op = "GetAvailableProxy"
    /\ call["c2"].pc = "commit"
    /\ muLock.writer = "c2"

-----------------------------------------------------------------------------
(* C39 *)

\* C39: SetConfig always returns: a call that has been made reaches its return,
\* the lock released.
C39_Returns ==
    \A p \in Procs :
        (call[p].op = "SetConfig") ~> (call[p].pc = "idle" /\ muLock.writer /= p)

=============================================================================
